---- MODULE Spec2Model ----
(***************************************************************************)
(* Model of the TDD MCP server: the JSONL record store                     *)
(* (src/src/services/storage.service.ts), the feature management service   *)
(* (src/src/services/feature-management.service.ts), the two tool surfaces *)
(* (src/src/handlers/tools.ts, src/src/handlers/new-tools.ts) and the raw  *)
(* stdio front end (src/stdio-server.js).                                  *)
(***************************************************************************)
EXTENDS Integers, Sequences, FiniteSets, TLC

VARIABLES
  features,    \* features.jsonl of every project: project id -> sequence of lines
  sessions,    \* tdd-sessions.jsonl of every project
  currentSessionId,  \* the field of NewToolsHandler; UnknownId when undefined
  dirs,        \* the project directories that exist under the base path
  now,         \* the wall clock, Date.now(), in milliseconds
  uuid,        \* number of ids uuidv4() has handed out
  last,        \* the last call made and its outcome
  race,        \* an updateTDDSessionStage call between its read and its write
  input,       \* the characters that have not yet arrived on standard input
  buffer,      \* stdio-server.js: the characters received and not yet consumed
  out,         \* stdio-server.js: the responses written to standard output
  pc,          \* stdio-server.js: where the 'data' listener is
  inflight,    \* stdio-server.js: the messages handed to handleMessage, not yet answered
  locale,      \* I18nService.currentLocale
  testMethods  \* test-methods.jsonl of every project

storeVars == <<features, sessions, currentSessionId, dirs, now, uuid, last>>
stdioVars == <<input, buffer, out, pc, inflight>>
vars == <<storeVars, race, stdioVars, locale, testMethods>>

----------------------------------------------------------------------------
(* Bounds *)

MaxRecords == 2      \* at most this many lines over all files of one kind
MaxUuid == 1         \* at most this many ids are generated by uuidv4()

(* Input domains *)

Times == {999, 1001}    \* the values Date.now() takes, in milliseconds
StartTime == 999
ProjectOrder == <<"alpha", "auto-project", "beta", "default-project">>
Projects == {ProjectOrder[i] : i \in 1..Len(ProjectOrder)}
FeatureProjects == {"alpha", "beta"}     \* the projectId values given to feature calls
ExternalIds == {100}
UnknownId == 0
Names == {<<>>, <<" ">>, <<"l">>, <<" ", "l">>}

----------------------------------------------------------------------------
(* Enumerations of src/unnamed/part_005 (types/storage.ts) *)

FeatureStatus == {"planning", "in_progress", "completed", "on_hold", "cancelled"}
TDDStage == {"red", "green", "refactor"}

StatusInputs == {"completed"}

----------------------------------------------------------------------------
(* Dates and JSON lines *)

\* toISOString truncated to whole seconds
ToISOString_seconds(ms) == [sec |-> ms \div 1000, frac |-> 0]

\* Date.prototype.toISOString as JSON.stringify applies it: the seconds part
\* and the three-digit millisecond part of the ISO-8601 text
ToISOString(ms) == [sec |-> ms \div 1000, frac |-> ms % 1000]

\* new Date(isoString)
NewDate(iso) == iso.sec * 1000 + iso.frac

\* the fields of the stored record types that hold Date values
DateTyped == {"createdAt", "updatedAt", "startedAt", "completedAt", "lastExecutedAt"}

\* JSON.stringify(item): every Date value becomes its ISO string
JSONStringify(item) ==
  [k \in DOMAIN item |-> IF k \in DateTyped THEN ToISOString(item[k]) ELSE item[k]]

dateFields == {"createdAt", "updatedAt", "startedAt", "completedAt", "lastExecutedAt", "lastModified"}

\* restoreDates: the string fields named in dateFields become Date values again
restoreDates(obj) ==
  [k \in DOMAIN obj |-> IF k \in dateFields THEN NewDate(obj[k]) ELSE obj[k]]

\* a line of white space only, and a line that is not JSON (a record cut short)
BlankLine == [blank |-> TRUE]
MalformedLine == [malformed |-> TRUE]

\* a line that is JSON but not an object, such as 42
ScalarLine == [scalar |-> 42]

\* line.trim() is not empty
trimIsTruthy(line) == line # BlankLine

\* JSON.parse(line) does not throw
parses(line) == line # MalformedLine

\* a readJsonlFile whose loop ends at the first line that does not parse
readJsonlFile_stops(file) ==
  LET lines == SelectSeq(file, trimIsTruthy)
      bad == { i \in 1..Len(lines) : ~parses(lines[i]) }
      n == IF bad = {} THEN Len(lines)
           ELSE (CHOOSE i \in bad : \A j \in bad : i <= j) - 1
  IN [i \in 1..n |-> restoreDates(lines[i])]

\* readJsonlFile: the lines that are not blank are parsed in file order; a line
\* that does not parse is skipped with a warning, every other one is an item
readJsonlFile(file) ==
  LET lines == SelectSeq(file, trimIsTruthy)
      items == SelectSeq(lines, parses)
  IN [i \in 1..Len(items) |-> restoreDates(items[i])]

\* writeJsonlFile that appends the serialised items to the file (appendFile
\* where writeFile is meant)
writeJsonlFile_append(file, items) ==
  file \o [i \in 1..Len(items) |-> JSONStringify(items[i])]

\* writeJsonlFile: the whole content of the file replaced by the serialised items
writeJsonlFile(file, items) == [i \in 1..Len(items) |-> JSONStringify(items[i])]

\* appendToJsonlFile: one serialised line added at the end
appendToJsonlFile(file, item) == Append(file, JSONStringify(item))

----------------------------------------------------------------------------
(* Small helpers *)

\* p comes strictly before q in directory order
ProjectBefore(p, q) ==
  \E i, j \in 1..Len(ProjectOrder) : ProjectOrder[i] = p /\ ProjectOrder[j] = q /\ i < j

Range(f) == {f[i] : i \in DOMAIN f}

\* Array.prototype.findIndex with the test "item.id === id"; 0 stands for -1
findIndex(items, id) ==
  IF \E i \in 1..Len(items) : items[i].id = id
  THEN CHOOSE i \in 1..Len(items) :
         items[i].id = id /\ \A j \in 1..(i - 1) : items[j].id # id
  ELSE 0

\* Array.prototype.splice(index, 1)
splice(items, index) ==
  [i \in 1..(Len(items) - 1) |-> IF i < index THEN items[i] ELSE items[i + 1]]

\* String.prototype.trim on a string given as a sequence of characters
RECURSIVE TrimLeft(_)
TrimLeft(s) == IF s # <<>> /\ Head(s) = " " THEN TrimLeft(Tail(s)) ELSE s

RECURSIVE TrimRight(_)
TrimRight(s) ==
  IF s # <<>> /\ s[Len(s)] = " " THEN TrimRight(SubSeq(s, 1, Len(s) - 1)) ELSE s

Trim(s) == TrimRight(TrimLeft(s))

RECURSIVE SumLen(_, _)
SumLen(files, ps) ==
  IF ps = {} THEN 0
  ELSE LET p == CHOOSE q \in ps : TRUE
       IN Len(files[p]) + SumLen(files, ps \ {p})

TotalLines(files) == SumLen(files, DOMAIN files)

----------------------------------------------------------------------------
(* StorageService *)

\* listProjects: the project directories, in directory (name) order
listProjects(ds) == SelectSeq(ProjectOrder, LAMBDA p : p \in ds)

\* listFeatures(projectId): the records of the project's file that carry its id
listFeatures(fs, projectId) ==
  SelectSeq(readJsonlFile(fs[projectId]), LAMBDA f : f.projectId = projectId)

\* the first project, in listProjects order, whose listed records hold the id;
\* "none" when no project does
RECURSIVE FirstProjectWith(_, _, _)
FirstProjectWith(lists, projects, id) ==
  IF projects = <<>> THEN "none"
  ELSE IF findIndex(lists[Head(projects)], id) # 0 THEN Head(projects)
  ELSE FirstProjectWith(lists, Tail(projects), id)

NoRecord == [id |-> UnknownId]

\* loadFeature(id): the first match of the first project that has one, or null
loadFeature(fs, ds, id) ==
  LET lists == [p \in DOMAIN fs |-> listFeatures(fs, p)]
      p == FirstProjectWith(lists, listProjects(ds), id)
  IN IF p = "none" THEN NoRecord ELSE lists[p][findIndex(lists[p], id)]

\* validateFeature: FeatureSchema.safeParse succeeds
validateFeature(feature) ==
  /\ feature.name # <<>>
  /\ feature.status \in FeatureStatus

\* saveFeature: validate, ensure the project directory, append one line
saveFeature(fs, ds, feature) ==
  IF ~validateFeature(feature)
  THEN [ok |-> FALSE, err |-> "invalid data", files |-> fs, dirs |-> ds]
  ELSE [ok |-> TRUE, err |-> "",
        files |-> [fs EXCEPT ![feature.projectId] = appendToJsonlFile(@, feature)],
        dirs |-> ds \cup {feature.projectId}]

\* deleteFeature: the first match of the first project that has one is spliced
\* out and the file rewritten
deleteFeature(fs, ds, id) ==
  LET lists == [p \in DOMAIN fs |-> readJsonlFile(fs[p])]
      p == FirstProjectWith(lists, listProjects(ds), id)
  IN IF p = "none"
     THEN [ok |-> FALSE, err |-> "", files |-> fs, dirs |-> ds]
     ELSE [ok |-> TRUE, err |-> "",
           files |-> [fs EXCEPT ![p] =
                        writeJsonlFile(@, splice(lists[p], findIndex(lists[p], id)))],
           dirs |-> ds]

\* the assignments "record.field = value" of an update, one per field of changes
assign(record, changes) ==
  [k \in DOMAIN record \cup DOMAIN changes |->
     IF k \in DOMAIN changes THEN changes[k] ELSE record[k]]

\* read-modify-rewrite that changes every record carrying the id (filter
\* instead of find)
rewriteFirst_all(fs, ds, id, changes) ==
  LET lists == [p \in DOMAIN fs |-> readJsonlFile(fs[p])]
      p == FirstProjectWith(lists, listProjects(ds), id)
  IN IF p = "none"
     THEN [ok |-> FALSE, err |-> "", files |-> fs, dirs |-> ds]
     ELSE [ok |-> TRUE, err |-> "",
           files |-> [fs EXCEPT ![p] =
                        writeJsonlFile(@, [i \in 1..Len(lists[p]) |->
                          IF lists[p][i].id = id THEN assign(lists[p][i], changes)
                          ELSE lists[p][i]])],
           dirs |-> ds]

\* the read-modify-rewrite shared by updateFeatureStatus, updateTDDSessionStage,
\* updateTestExecutionResult and updateTestMethodStatus: the first match of the
\* first project that has one gets the changed fields and the whole file is
\* rewritten
rewriteFirst(fs, ds, id, changes) ==
  LET lists == [p \in DOMAIN fs |-> readJsonlFile(fs[p])]
      p == FirstProjectWith(lists, listProjects(ds), id)
  IN IF p = "none"
     THEN [ok |-> FALSE, err |-> "", files |-> fs, dirs |-> ds]
     ELSE LET k == findIndex(lists[p], id)
          IN [ok |-> TRUE, err |-> "",
              files |-> [fs EXCEPT ![p] =
                           writeJsonlFile(@, [lists[p] EXCEPT ![k] = assign(@, changes)])],
              dirs |-> ds]

\* StorageService.updateFeatureStatus(id, status)
storageUpdateFeatureStatus(fs, ds, id, status, t) ==
  rewriteFirst(fs, ds, id, [status |-> status, updatedAt |-> t])

----------------------------------------------------------------------------
(* FeatureManagementService *)

\* a createFeature that checks the name without trimming it
createFeature_untrimmed(fs, ds, name, noCriteria, projectId, newId, t) ==
  IF name = <<>>
  THEN [ok |-> FALSE, err |-> "Feature name cannot be empty", files |-> fs, dirs |-> ds]
  ELSE IF noCriteria
  THEN [ok |-> FALSE, err |-> "Feature must have at least one acceptance criteria",
        files |-> fs, dirs |-> ds]
  ELSE saveFeature(fs, ds,
         [id |-> newId, projectId |-> projectId, name |-> Trim(name),
          status |-> "planning", createdAt |-> t, updatedAt |-> t])

\* createFeature: both validations, then a record with a fresh uuid is saved
createFeature(fs, ds, name, noCriteria, projectId, newId, t) ==
  IF Trim(name) = <<>>
  THEN [ok |-> FALSE, err |-> "Feature name cannot be empty", files |-> fs, dirs |-> ds]
  ELSE IF noCriteria
  THEN [ok |-> FALSE, err |-> "Feature must have at least one acceptance criteria",
        files |-> fs, dirs |-> ds]
  ELSE saveFeature(fs, ds,
         [id |-> newId, projectId |-> projectId, name |-> Trim(name),
          status |-> "planning", createdAt |-> t, updatedAt |-> t])

\* updateFeatureStatus as an upsert: an id that is not stored is saved as a new
\* record instead of being rejected
updateFeatureStatus_upsert(fs, ds, id, status, t) ==
  LET existingFeature == loadFeature(fs, ds, id)
  IN IF existingFeature.id = UnknownId
     THEN saveFeature(fs, ds,
            [id |-> id, projectId |-> ProjectOrder[1], name |-> <<"l">>,
             status |-> status, createdAt |-> t, updatedAt |-> t])
     ELSE saveFeature(fs, ds, [existingFeature EXCEPT !.status = status, !.updatedAt = t])

\* FeatureManagementService.updateFeatureStatus: load, copy with the new
\* status and time, saveFeature
updateFeatureStatus(fs, ds, id, status, t) ==
  LET existingFeature == loadFeature(fs, ds, id)
  IN IF existingFeature.id = UnknownId
     THEN [ok |-> FALSE, err |-> "Feature not found", files |-> fs, dirs |-> ds]
     ELSE saveFeature(fs, ds, [existingFeature EXCEPT !.status = status, !.updatedAt = t])

----------------------------------------------------------------------------
(* TDD sessions in the store *)

\* the session object built by handleCreateTDDSession and ensureActiveSession:
\* id `session-${Date.now()}`, stage red, cycle count 0
NewSession(projectId, t) ==
  [id |-> t, projectId |-> projectId, stage |-> "red", startedAt |-> t,
   updatedAt |-> t, cycleCount |-> 0]

\* saveTDDSession: TDDSessionSchema.safeParse, ensure the directory, append;
\* valid says whether the caller's featureId and developer are strings
saveTDDSession(ss, ds, session, valid) ==
  IF ~valid
  THEN [ok |-> FALSE, err |-> "Invalid TDD session data", files |-> ss, dirs |-> ds]
  ELSE [ok |-> TRUE, err |-> "",
        files |-> [ss EXCEPT ![session.projectId] = appendToJsonlFile(@, session)],
        dirs |-> ds \cup {session.projectId}]

\* loadTDDSession(id): the first match of the first project that has one
loadTDDSession(ss, ds, id) ==
  LET lists == [p \in DOMAIN ss |-> readJsonlFile(ss[p])]
      p == FirstProjectWith(lists, listProjects(ds), id)
  IN IF p = "none" THEN NoRecord ELSE lists[p][findIndex(lists[p], id)]

\* updateTDDSessionStage that only lets a session move forward in the cycle
updateTDDSessionStage_forward(ss, ds, id, stage, t) ==
  LET session == loadTDDSession(ss, ds, id)
  IN IF session.id # UnknownId /\ <<session.stage, stage>> \in
          {<<"red", "green">>, <<"green", "refactor">>, <<"refactor", "red">>}
     THEN rewriteFirst(ss, ds, id, [stage |-> stage, updatedAt |-> t])
     ELSE [ok |-> FALSE, err |-> "", files |-> ss, dirs |-> ds]

\* StorageService.updateTDDSessionStage(id, stage)
updateTDDSessionStage(ss, ds, id, stage, t) ==
  rewriteFirst(ss, ds, id, [stage |-> stage, updatedAt |-> t])

----------------------------------------------------------------------------
(* TestGeneratorService: the framework check of generateTests *)

\* SUPPORTED_FRAMEWORKS: key, language and name of every registered framework
SUPPORTED_FRAMEWORKS ==
  { [language |-> "typescript", name |-> "Jest", key |-> "jest"],
    [language |-> "typescript", name |-> "Mocha", key |-> "mocha"],
    [language |-> "typescript", name |-> "Vitest", key |-> "vitest"],
    [language |-> "python", name |-> "pytest", key |-> "pytest"],
    [language |-> "python", name |-> "unittest", key |-> "unittest"],
    [language |-> "java", name |-> "JUnit 5", key |-> "junit5"],
    [language |-> "csharp", name |-> "xUnit", key |-> "xunit"],
    [language |-> "go", name |-> "Go Test", key |-> "gotest"],
    [language |-> "rust", name |-> "Cargo Test", key |-> "cargo_test"],
    [language |-> "php", name |-> "PHPUnit", key |-> "phpunit"] }

\* String.prototype.toLowerCase on the framework names and the inputs used
toLowerCase(str) ==
  CASE str = "Jest" -> "jest"
    [] str = "Mocha" -> "mocha"
    [] str = "Vitest" -> "vitest"
    [] str = "JUnit 5" -> "junit 5"
    [] str = "xUnit" -> "xunit"
    [] str = "Go Test" -> "go test"
    [] str = "Cargo Test" -> "cargo test"
    [] str = "PHPUnit" -> "phpunit"
    [] str = "Must" -> "must"
    [] OTHER -> str

isFrameworkSupported(language, framework) ==
  \E f \in SUPPORTED_FRAMEWORKS :
    f.language = language /\ toLowerCase(f.name) = toLowerCase(framework)

----------------------------------------------------------------------------
(* I18nService: i18n.ts.  The Chinese texts of the source are written here in
   pinyin, because a string of this language holds ASCII only:
     'TDD开发工具' "TDD kaifa gongju", '功能管理' "gongneng guanli",
     '测试跟踪' "ceshi genzong",
     '测试驱动开发的核心工作流工具' "ceshi qudong kaifa de hexin gongzuoliu gongju",
     '项目功能的全生命周期管理' "xiangmu gongneng de quan shengming zhouqi guanli",
     '测试方法级别的执行跟踪管理' "ceshi fangfa jibie de zhixing genzong guanli",
     '字段验证失败: {{field}}' "ziduan yanzheng shibai: {{field}}",
     '输入参数验证失败' "shuru canshu yanzheng shibai", '工具执行失败' "gongju zhixing shibai" *)

SupportedLocale == {"zh", "en"}

\* private currentLocale: SupportedLocale = 'en'
defaultLocale == "en"

MessageKeys ==
  {"tdd.title", "feature.title", "tracking.title",
   "tdd.description", "feature.description", "tracking.description",
   "error.validation_failed", "error.invalid_params", "error.tool_execution_failed"}

\* the message dictionary
messages ==
  [l \in SupportedLocale |->
     IF l = "zh"
     THEN [k \in MessageKeys |->
             CASE k = "tdd.title" -> "TDD kaifa gongju"
               [] k = "feature.title" -> "gongneng guanli"
               [] k = "tracking.title" -> "ceshi genzong"
               [] k = "tdd.description" -> "ceshi qudong kaifa de hexin gongzuoliu gongju"
               [] k = "feature.description" -> "xiangmu gongneng de quan shengming zhouqi guanli"
               [] k = "tracking.description" -> "ceshi fangfa jibie de zhixing genzong guanli"
               [] k = "error.validation_failed" -> "ziduan yanzheng shibai: {{field}}"
               [] k = "error.invalid_params" -> "shuru canshu yanzheng shibai"
               [] k = "error.tool_execution_failed" -> "gongju zhixing shibai"]
     ELSE [k \in MessageKeys |->
             CASE k = "tdd.title" -> "TDD Development Tool"
               [] k = "feature.title" -> "Feature Management"
               [] k = "tracking.title" -> "Test Tracking"
               [] k = "tdd.description" -> "Core workflow tool for Test-Driven Development"
               [] k = "feature.description" -> "Full lifecycle management of project features"
               [] k = "tracking.description" ->
                    "Execution tracking management at test method level"
               [] k = "error.validation_failed" -> "Validation failed for field: {{field}}"
               [] k = "error.invalid_params" -> "Input parameter validation failed"
               [] k = "error.tool_execution_failed" -> "Tool execution failed"]]

\* getMessage(key, locale): the text of the locale, else the key itself
getMessage(key, l) ==
  IF key \in DOMAIN messages[l] THEN messages[l][key]
  ELSE IF key \in DOMAIN messages[defaultLocale] THEN messages[defaultLocale][key]
  ELSE key

\* errorType.toLowerCase() of the three error types
errorTypeToLowerCase(errorType) ==
  CASE errorType = "INVALID_PARAMS" -> "invalid_params"
    [] errorType = "TOOL_EXECUTION_ERROR" -> "tool_execution_error"
    [] errorType = "RESOURCE_NOT_FOUND" -> "resource_not_found"

\* `error.${errorType.toLowerCase()}`
errorMessageKey(errorType) ==
  CASE errorTypeToLowerCase(errorType) = "invalid_params" -> "error.invalid_params"
    [] errorTypeToLowerCase(errorType) = "tool_execution_error" -> "error.tool_execution_error"
    [] errorTypeToLowerCase(errorType) = "resource_not_found" -> "error.resource_not_found"

\* getToolDescription(toolName, locale).description
getToolDescription(toolName, l) ==
  getMessage(CASE toolName = "tdd" -> "tdd.description"
               [] toolName = "feature" -> "feature.description"
               [] toolName = "tracking" -> "tracking.description", l)

\* createLocalizedError(errorType).message under the given locale
createLocalizedError(errorType, l) == getMessage(errorMessageKey(errorType), l)

----------------------------------------------------------------------------
(* The legacy tool surface: handlers/tools.ts *)

\* what a handler did: raised says it threw, err is the message, isError the
\* flag of the result it returned
Outcome(raised, isError, err, prev, fs, ss, ds, cur) ==
  [raised |-> raised, isError |-> isError, err |-> err, prev |-> prev,
   features |-> fs, sessions |-> ss, dirs |-> ds, cur |-> cur, thrown |-> FALSE,
   text |-> IF err = "" THEN <<>> ELSE <<err>>]

\* createSuccessResult(message): the lines of the message are the text of the result
createSuccessResult(message, h) == [h EXCEPT !.text = message]

\* handleCreateTDDSession
handleCreateTDDSession(args, fs, ss, ds, cur, t) ==
  LET projectId == IF args.projectId # "" THEN args.projectId ELSE "default-project"
      r == saveTDDSession(ss, ds, NewSession(projectId, t), args.valid)
  IN Outcome(~r.ok, FALSE, r.err, "", fs, r.files, r.dirs, cur)

\* handleUpdateTDDStage: load, update, load again
handleUpdateTDDStage(args, fs, ss, ds, cur, t) ==
  LET session == loadTDDSession(ss, ds, args.id)
      r == updateTDDSessionStage(ss, ds, args.id, args.stage, t)
  IN IF session.id = UnknownId
     THEN Outcome(TRUE, FALSE, "TDD session not found", "", fs, ss, ds, cur)
     ELSE IF ~r.ok
     THEN Outcome(TRUE, FALSE, "Failed to update TDD session stage", session.stage,
                  fs, ss, ds, cur)
     ELSE Outcome(FALSE, FALSE, "", session.stage, fs, r.files, r.dirs, cur)

\* handleGenerateTestCases: generateTests throws for an unsupported pair
handleGenerateTestCases(args, fs, ss, ds, cur, t) ==
  IF ~isFrameworkSupported(args.language, args.framework)
  THEN Outcome(TRUE, FALSE, "Framework is not supported for language", "", fs, ss, ds, cur)
  ELSE Outcome(FALSE, FALSE, "", "", fs, ss, ds, cur)

\* handleUpdateFeatureStatus
handleUpdateFeatureStatus(args, fs, ss, ds, cur, t) ==
  LET r == updateFeatureStatus(fs, ds, args.id, args.stage, t)
  IN Outcome(~r.ok, FALSE, r.err, "", r.files, ss, r.dirs, cur)

\* the switch of toolsHandler.callTool
legacyDispatch(name, args, fs, ss, ds, cur, t) ==
  CASE name = "createTDDSession" -> handleCreateTDDSession(args, fs, ss, ds, cur, t)
    [] name = "updateTDDStage" -> handleUpdateTDDStage(args, fs, ss, ds, cur, t)
    [] name = "generate_test_cases" -> handleGenerateTestCases(args, fs, ss, ds, cur, t)
    [] name = "updateFeatureStatus" -> handleUpdateFeatureStatus(args, fs, ss, ds, cur, t)
    [] OTHER -> Outcome(TRUE, FALSE, "Unknown tool", "", fs, ss, ds, cur)

\* a callTool without the try/catch: the raised error leaves callTool
catch_missing(h) ==
  IF h.raised THEN [h EXCEPT !.thrown = TRUE] ELSE h

\* the try/catch of a callTool: an error raised by the handler becomes a result
\* with isError: true and the message as its text
catch(h) ==
  IF h.raised THEN [h EXCEPT !.isError = TRUE] ELSE h

\* TOOLS: the names of the tool definitions, in order
TOOLS ==
  <<"generate_test_cases", "implement_from_tests", "run_tests", "analyze_coverage",
    "refactor_code", "validate_tdd_cycle", "createFeature", "updateFeatureStatus",
    "linkFeatureFiles", "findSimilarFeatures", "createTDDSession", "updateTDDStage",
    "registerTestMethod", "updateTestExecutionResult", "updateTestMethodStatus">>

\* toolsHandler.listTools
legacyListTools == TOOLS

\* toolsHandler.callTool
legacyCallTool(name, args, fs, ss, ds, cur, t) ==
  catch(legacyDispatch(name, args, fs, ss, ds, cur, t))

----------------------------------------------------------------------------
(* The simplified tool surface: handlers/new-tools.ts *)

\* ensureActiveSession that saves the session but does not keep its id
ensureActiveSession_forgets(args, ss, ds, cur, t) ==
  IF cur = UnknownId
  THEN LET r == saveTDDSession(ss, ds, NewSession("auto-project", t), args.valid)
       IN [raised |-> ~r.ok, err |-> r.err, sessions |-> r.files, dirs |-> r.dirs,
           cur |-> cur]
  ELSE [raised |-> FALSE, err |-> "", sessions |-> ss, dirs |-> ds, cur |-> cur]

\* an ensureActiveSession that files the session under default-project, as
\* handleCreateTDDSession of the legacy surface does
ensureActiveSession_defaultProject(args, ss, ds, cur, t) ==
  IF cur = UnknownId
  THEN LET r == saveTDDSession(ss, ds, NewSession("default-project", t), args.valid)
       IN [raised |-> ~r.ok, err |-> r.err, sessions |-> r.files, dirs |-> r.dirs,
           cur |-> IF r.ok THEN t ELSE cur]
  ELSE [raised |-> FALSE, err |-> "", sessions |-> ss, dirs |-> ds, cur |-> cur]

\* ensureActiveSession: with no current session, a session of project
\* auto-project is saved and becomes the current one
ensureActiveSession(args, ss, ds, cur, t) ==
  IF cur = UnknownId
  THEN LET r == saveTDDSession(ss, ds, NewSession("auto-project", t), args.valid)
       IN [raised |-> ~r.ok, err |-> r.err, sessions |-> r.files, dirs |-> r.dirs,
           cur |-> IF r.ok THEN t ELSE cur]
  ELSE [raised |-> FALSE, err |-> "", sessions |-> ss, dirs |-> ds, cur |-> cur]

\* an updateSessionStage with its test of currentSessionId turned around
updateSessionStage_inverted(ss, ds, cur, stage, t) ==
  IF cur = UnknownId THEN updateTDDSessionStage(ss, ds, cur, stage, t).files ELSE ss

\* updateSessionStage: the stored stage of the current session, when there is one
updateSessionStage(ss, ds, cur, stage, t) ==
  IF cur # UnknownId THEN updateTDDSessionStage(ss, ds, cur, stage, t).files ELSE ss

\* executeFullTDDWorkflow: stage red, then green
executeFullTDDWorkflow(ss, ds, cur, t) ==
  updateSessionStage(updateSessionStage(ss, ds, cur, "red", t), ds, cur, "green", t)

\* the results array of executeFullTDDWorkflow with its two first steps pushed
\* in the other order
results_swapped ==
  <<"(v) shengcheng zuixiao shixian", "(v) shengcheng ceshi yongli",
    "(v) yunxing ceshi", "(v) fenxi fugailv", "(v) tigong chonggou jianyi">>

\* the results array of executeFullTDDWorkflow, in pinyin with (v) for the
\* check mark: '✅ 生成测试用例', '✅ 生成最小实现', '✅ 运行测试',
\* '✅ 分析覆盖率', '✅ 提供重构建议'
results ==
  <<"(v) shengcheng ceshi yongli", "(v) shengcheng zuixiao shixian",
    "(v) yunxing ceshi", "(v) fenxi fugailv", "(v) tigong chonggou jianyi">>

\* the message of executeFullTDDWorkflow, line by line:
\* `完整TDD流程执行完成:\n${results.join('\n')}`
fullWorkflowMessage == <<"wanzheng TDD liucheng zhixing wancheng:">> \o results

\* handleTDDTool
handleTDDTool(args, fs, ss, ds, cur, t, l) ==
  IF args.noArgs
  THEN Outcome(TRUE, FALSE, "TypeError", "", fs, ss, ds, cur)
  ELSE
  LET e == ensureActiveSession(args, ss, ds, cur, t)
      found == IF cur = UnknownId THEN "no session" ELSE ""
      result(isError, text, ss2) ==
        Outcome(FALSE, isError, text, found, fs, ss2, e.dirs, e.cur)
      success(message, ss2) == createSuccessResult(message, result(FALSE, "", ss2))
      staged(stage) == updateSessionStage(e.sessions, e.dirs, e.cur, stage, t)
  IN IF e.raised
     THEN Outcome(TRUE, FALSE, e.err, "", fs, ss, ds, cur)
     ELSE IF args.command = "" /\ ~args.hasReq
     THEN result(TRUE, createLocalizedError("INVALID_PARAMS", l), e.sessions)
     ELSE IF args.command = "implement" /\ ~args.hasTestCode
     THEN result(TRUE, "testCode is required for implement command", e.sessions)
     ELSE IF args.command = ""
     THEN success(fullWorkflowMessage,
            updateSessionStage(
              executeFullTDDWorkflow(staged("red"), e.dirs, e.cur, t),
              e.dirs, e.cur, "refactor", t))
     ELSE CASE args.command = "generate" ->
                 IF ~args.hasReq
                 THEN result(TRUE, "requirements is required for generate command",
                             e.sessions)
                 ELSE success(<<"Test cases generated successfully">>, staged("red"))
            [] args.command = "implement" ->
                 success(<<"Implementation code generated successfully">>, staged("green"))
            [] args.command = "test" ->
                 success(<<"Tests executed successfully">>, e.sessions)
            [] args.command = "coverage" ->
                 success(<<"Coverage analysis completed">>, e.sessions)
            [] args.command = "refactor" ->
                 success(<<"Refactoring suggestions provided">>, staged("refactor"))
            [] args.command = "validate" ->
                 success(<<"TDD cycle validation completed">>, e.sessions)
            [] OTHER -> result(TRUE, "Invalid command", e.sessions)

\* handleFeatureTool
handleFeatureTool(args, fs, ss, ds, cur, t, l) ==
  IF args.noArgs
  THEN Outcome(TRUE, FALSE, "TypeError", "", fs, ss, ds, cur)
  ELSE IF ~args.hasName
  THEN Outcome(FALSE, TRUE, createLocalizedError("INVALID_PARAMS", l), "", fs, ss, ds, cur)
  ELSE LET command == IF args.command # "" THEN args.command ELSE "create"
           success(message) ==
             createSuccessResult(message, Outcome(FALSE, FALSE, "", "", fs, ss, ds, cur))
       IN CASE command = "create" -> success(<<"Feature created successfully">>)
            [] command = "update" -> success(<<"Feature updated successfully">>)
            [] command = "link" -> success(<<"Files linked to feature successfully">>)
            [] command = "find" -> success(<<"Similar features found">>)
            [] OTHER -> Outcome(FALSE, TRUE, "Invalid command", "", fs, ss, ds, cur)

\* handleTrackingTool
handleTrackingTool(args, fs, ss, ds, cur, t, l) ==
  IF args.noArgs
  THEN Outcome(TRUE, FALSE, "TypeError", "", fs, ss, ds, cur)
  ELSE LET command == IF args.command # "" THEN args.command ELSE "register"
           success(message) ==
             createSuccessResult(message, Outcome(FALSE, FALSE, "", "", fs, ss, ds, cur))
       IN CASE command = "register" ->
                 IF ~args.hasName
                 THEN Outcome(FALSE, TRUE,
                        "featureId, name, filePath, and framework are required",
                        "", fs, ss, ds, cur)
                 ELSE success(<<"Test method registered successfully">>)
            [] command = "result" -> success(<<"Test execution result updated">>)
            [] command = "status" -> success(<<"Test method status updated">>)
            [] OTHER -> Outcome(FALSE, TRUE, "Invalid command", "", fs, ss, ds, cur)

\* the switch of NewToolsHandler.callTool; an unknown tool is an error result
newDispatch(name, args, fs, ss, ds, cur, t, l) ==
  CASE name = "tdd" -> handleTDDTool(args, fs, ss, ds, cur, t, l)
    [] name = "feature" -> handleFeatureTool(args, fs, ss, ds, cur, t, l)
    [] name = "tracking" -> handleTrackingTool(args, fs, ss, ds, cur, t, l)
    [] OTHER -> Outcome(FALSE, TRUE, "Unknown tool", "", fs, ss, ds, cur)

\* a createTool that names the tool by its localized title
createTool_title(toolName, l) ==
  [name |-> getMessage(CASE toolName = "tdd" -> "tdd.title"
                         [] toolName = "feature" -> "feature.title"
                         [] toolName = "tracking" -> "tracking.title", l),
   description |-> getToolDescription(toolName, l)]

\* createTDDTool, createFeatureTool, createTrackingTool: name and description
createTool(toolName, l) == [name |-> toolName, description |-> getToolDescription(toolName, l)]

\* NewToolsHandler.listTools under the given locale
newListTools(l) == <<createTool("tdd", l), createTool("feature", l), createTool("tracking", l)>>

\* NewToolsHandler.callTool
newCallTool(name, args, fs, ss, ds, cur, t, l) ==
  catch(newDispatch(name, args, fs, ss, ds, cur, t, l))

----------------------------------------------------------------------------
(* The record store driven through its feature operations *)

EmptyFiles == [p \in Projects |-> <<>>]

\* the record of a call: its name, the id and value it was given, whether it
\* succeeded, its error message, the stage it found, whether an error was raised
\* while it ran and whether it threw to its caller
Call(op, id, val, r) ==
  [op |-> op, id |-> id, val |-> val, ok |-> r.ok, err |-> r.err, prev |-> "",
   raised |-> r.err # "", thrown |-> r.err # "", text |-> <<>>]

NoCall(op) ==
  [op |-> op, id |-> UnknownId, val |-> "", ok |-> TRUE, err |-> "", prev |-> "",
   raised |-> FALSE, thrown |-> FALSE, text |-> <<>>]

\* no update call is between its read and its write
NoUpdate ==
  [pc |-> "idle", id |-> UnknownId, project |-> "none", items |-> <<>>,
   appended |-> <<>>, ok |-> FALSE]

\* the ids a caller can name: those generated so far and the external ones
KnownIds == (1..uuid) \cup ExternalIds

Init ==
  /\ features = EmptyFiles
  /\ sessions = EmptyFiles
  /\ dirs = {}
  /\ now = StartTime
  /\ uuid = 0
  /\ currentSessionId = UnknownId
  /\ last = NoCall("init")
  /\ race = NoUpdate
  /\ input = <<>>
  /\ buffer = <<>>
  /\ out = <<>>
  /\ pc = "idle"
  /\ inflight = <<>>
  /\ locale = defaultLocale
  /\ testMethods = EmptyFiles

\* the clock advances between calls
Tick ==
  /\ now' \in {t \in Times : t > now}
  /\ last' = NoCall("tick")
  /\ UNCHANGED <<features, sessions, currentSessionId, dirs, uuid, race, stdioVars, locale, testMethods>>

\* FeatureManagementService.createFeature(params)
CreateFeature ==
  \E name \in Names, noCriteria \in BOOLEAN, projectId \in FeatureProjects :
    LET r == createFeature(features, dirs, name, noCriteria, projectId, uuid + 1, now)
    IN /\ r.ok => (uuid < MaxUuid /\ TotalLines(features) < MaxRecords)
       /\ features' = r.files
       /\ dirs' = r.dirs
       /\ uuid' = IF r.ok THEN uuid + 1 ELSE uuid
       /\ last' = [name |-> name, noCriteria |-> noCriteria]
                  @@ Call("createFeature", IF r.ok THEN uuid + 1 ELSE UnknownId, "", r)
       /\ UNCHANGED <<sessions, currentSessionId, now, race, stdioVars, locale, testMethods>>

\* StorageService.saveFeature(feature), called directly
SaveFeature ==
  \E id \in KnownIds, projectId \in FeatureProjects, name \in {<<>>, <<"l">>},
     status \in StatusInputs :
    LET feature == [id |-> id, projectId |-> projectId, name |-> name,
                    status |-> status, createdAt |-> now, updatedAt |-> now]
        r == saveFeature(features, dirs, feature)
    IN /\ r.ok => TotalLines(features) < MaxRecords
       /\ features' = r.files
       /\ dirs' = r.dirs
       /\ last' = Call("saveFeature", id, status, r)
       /\ UNCHANGED <<sessions, currentSessionId, now, uuid, race, stdioVars, locale, testMethods>>

\* FeatureManagementService.updateFeatureStatus(params), the handler of the
\* updateFeatureStatus tool
UpdateFeatureStatus ==
  \E id \in KnownIds \cup {UnknownId}, status \in StatusInputs \cup {"bogus"} :
    LET r == updateFeatureStatus(features, dirs, id, status, now)
    IN /\ r.ok => TotalLines(features) < MaxRecords
       /\ features' = r.files
       /\ dirs' = r.dirs
       /\ last' = Call("updateFeatureStatus", id, status, r)
       /\ UNCHANGED <<sessions, currentSessionId, now, uuid, race, stdioVars, locale, testMethods>>

\* StorageService.updateFeatureStatus(id, status), called directly
StorageUpdateFeatureStatus ==
  \E id \in KnownIds \cup {UnknownId}, status \in StatusInputs :
    LET r == storageUpdateFeatureStatus(features, dirs, id, status, now)
    IN /\ features' = r.files
       /\ dirs' = r.dirs
       /\ last' = Call("storage.updateFeatureStatus", id, status, r)
       /\ UNCHANGED <<sessions, currentSessionId, now, uuid, race, stdioVars, locale, testMethods>>

\* FeatureManagementService.deleteFeature(featureId)
DeleteFeature ==
  \E id \in KnownIds \cup {UnknownId} :
    LET r == deleteFeature(features, dirs, id)
    IN /\ features' = r.files
       /\ dirs' = r.dirs
       /\ last' = Call("deleteFeature", id, "", r)
       /\ UNCHANGED <<sessions, currentSessionId, now, uuid, race, stdioVars, locale, testMethods>>

Next ==
  \/ Tick
  \/ CreateFeature
  \/ SaveFeature
  \/ UpdateFeatureStatus
  \/ StorageUpdateFeatureStatus
  \/ DeleteFeature

Spec == Init /\ [][Next]_vars

----------------------------------------------------------------------------
(* Properties of the feature store, checked under Spec *)

\* the positions, over all feature files, of the lines that carry the id
LinesWithId(files, id) ==
  UNION { { <<p, i>> : i \in {k \in 1..Len(files[p]) : files[p][k].id = id} } :
          p \in Projects }

\* C1: when updateFeatureStatus is called with an id that no stored feature
\* carries, the call fails with "Feature not found" and the feature files and
\* project directories are the same after the call as before it.
C1_NotFoundCreatesNothing ==
  [][(last'.op = "updateFeatureStatus" /\ LinesWithId(features, last'.id) = {})
       => /\ ~last'.ok
          /\ last'.err = "Feature not found"
          /\ features' = features
          /\ dirs' = dirs]_vars

C1_Witness ==
  /\ last.op = "updateFeatureStatus"
  /\ last.id \in ExternalIds
  /\ last.err = "Feature not found"
  /\ TotalLines(features) > 0
  /\ LinesWithId(features, last.id) = {}

\* C2: a successful updateFeatureStatus leaves the number of stored feature
\* records unchanged, and afterwards exactly one record carries the feature id
\* and that record has the new status.
C2_UpdateInPlace ==
  [][(last'.op = "updateFeatureStatus" /\ last'.ok)
       => /\ TotalLines(features') = TotalLines(features)
          /\ Cardinality(LinesWithId(features', last'.id)) = 1
          /\ \A pi \in LinesWithId(features', last'.id) :
               features'[pi[1]][pi[2]].status = last'.val]_vars

\* C3: in every reachable state no two lines of one JSONL file carry the same id.
C3_UniqueIds ==
  \A p \in Projects :
    /\ \A i, j \in 1..Len(features[p]) :
         features[p][i].id = features[p][j].id => i = j
    /\ \A i, j \in 1..Len(sessions[p]) :
         sessions[p][i].id = sessions[p][j].id => i = j

\* the record a successful saveFeature call was given
SavedFeature(call, projectId, t) ==
  [id |-> call.id, projectId |-> projectId, name |-> <<"l">>, status |-> call.val,
   createdAt |-> t, updatedAt |-> t]

\* C4: after a successful saveFeature, listFeatures of the record's project is
\* the list from before the call followed by the saved record, every field
\* equal to the saved value and both dates equal to the millisecond; every
\* record saved earlier is still listed unchanged.
C4_SaveThenList ==
  [][(last'.op = "saveFeature" /\ last'.ok)
       => \E p \in Projects :
            /\ listFeatures(features', p) =
                 Append(listFeatures(features, p), SavedFeature(last', p, now))
            /\ \A q \in Projects \ {p} :
                 listFeatures(features', q) = listFeatures(features, q)]_vars

C4_Witness ==
  /\ last.op = "saveFeature"
  /\ last.ok
  /\ now % 1000 # 0
  /\ \E p \in Projects :
       LET l == listFeatures(features, p)
       IN /\ Len(l) >= 2
          /\ l[Len(l)] = SavedFeature(last, p, now)
          /\ l[1].createdAt # now

\* C5: a successful StorageService.updateFeatureStatus changes one line only,
\* the first line with the id in the first project that has one: that record
\* gets the new status and time and keeps its other fields, every other line of
\* every file is the same as before in the same position, and no line is added
\* or removed; an unsuccessful one changes nothing.
C5_UpdateChangesFirstMatchOnly ==
  [][(last'.op = "storage.updateFeatureStatus")
       => IF last'.ok
          THEN \E p \in Projects : \E k \in 1..Len(features[p]) :
                 /\ features[p][k].id = last'.id
                 /\ \A j \in 1..(k - 1) : features[p][j].id # last'.id
                 /\ \A q \in Projects :
                      (\E j \in 1..Len(features[q]) : features[q][j].id = last'.id)
                        => ~ProjectBefore(q, p)
                 /\ \A q \in Projects \ {p} : features'[q] = features[q]
                 /\ Len(features'[p]) = Len(features[p])
                 /\ \A i \in 1..Len(features[p]) :
                      i # k => features'[p][i] = features[p][i]
                 /\ restoreDates(features'[p][k]) =
                      [restoreDates(features[p][k]) EXCEPT
                         !.status = last'.val, !.updatedAt = now]
          ELSE LinesWithId(features, last'.id) = {} /\ features' = features]_vars

C5_Witness ==
  /\ last.op = "storage.updateFeatureStatus"
  /\ last.ok
  /\ \E p \in Projects :
       /\ Len(features[p]) >= 2
       /\ features[p][1].id = last.id
       /\ features[p][2].id = last.id
       /\ features[p][1].updatedAt = ToISOString(now)
       /\ features[p][2].updatedAt # ToISOString(now)

\* C25: after updateFeatureStatus succeeds for a feature id, loading that
\* feature by id and listing its project both return the feature with the new
\* status and no longer return it with the old status.
C25_UpdatedStatusIsWhatReadsReturn ==
  [][(last'.op = "updateFeatureStatus" /\ last'.ok)
       => LET loaded == loadFeature(features', dirs', last'.id)
              listed == listFeatures(features', loaded.projectId)
          IN /\ loaded.id = last'.id
             /\ loaded.status = last'.val
             /\ \E i \in 1..Len(listed) : listed[i].id = last'.id
             /\ \A i \in 1..Len(listed) :
                  listed[i].id = last'.id => listed[i].status = last'.val]_vars

\* a name that is empty or holds nothing but white space
IsBlank(name) == \A i \in 1..Len(name) : name[i] = " "

\* C23: createFeature with an empty or whitespace-only name, or with an empty
\* acceptance-criteria list, fails with an error and saves no record.
C23_InvalidFeatureIsNotSaved ==
  [][(last'.op = "createFeature" /\ (IsBlank(last'.name) \/ last'.noCriteria))
       => (/\ ~last'.ok
           /\ last'.thrown
           /\ last'.err \in {"Feature name cannot be empty",
                             "Feature must have at least one acceptance criteria"}
           /\ features' = features
           /\ dirs' = dirs
           /\ uuid' = uuid)]_vars

\* a whitespace-only name was rejected while a record was stored
C23_Witness ==
  /\ last.op = "createFeature"
  /\ last.name = <<" ">>
  /\ ~last.noCriteria
  /\ ~last.ok
  /\ TotalLines(features) = 1

----------------------------------------------------------------------------
(* The two tool surfaces driven through callTool *)

MaxSessions == 1     \* at most this many lines over all session files

SessionIds == Times \cup {UnknownId}
Languages == {"typescript", "java", "cobol"}
Frameworks == {"jest", "Jest", "junit5"}
TDDCommands ==
  {"", "generate", "implement", "test", "coverage", "refactor", "validate", "invalid"}

\* the arguments object of a tools/call request
DefaultArgs ==
  [id |-> UnknownId, stage |-> "", projectId |-> "", valid |-> TRUE,
   language |-> "", framework |-> "", command |-> "",
   hasReq |-> FALSE, hasTestCode |-> FALSE, hasName |-> FALSE, noArgs |-> FALSE]

ToolCall(op, id, val, h) ==
  [op |-> op, id |-> id, val |-> val, ok |-> ~h.isError /\ ~h.thrown, err |-> h.err,
   prev |-> h.prev, raised |-> h.raised, thrown |-> h.thrown, text |-> h.text]

\* the argument objects given to the tdd tool: requirements matter to the
\* default workflow and to generate, testCode to implement
TDDArgs ==
  { [DefaultArgs EXCEPT !.noArgs = TRUE] } \cup
  { [DefaultArgs EXCEPT !.command = c, !.hasReq = r, !.hasTestCode = tc, !.valid = v] :
      c \in TDDCommands, r \in BOOLEAN, tc \in BOOLEAN, v \in BOOLEAN }

\* the argument objects given to the feature and tracking tools
StubArgs(commands) ==
  { [DefaultArgs EXCEPT !.noArgs = TRUE] } \cup
  { [DefaultArgs EXCEPT !.command = c, !.hasName = n] : c \in commands, n \in BOOLEAN }

\* tools/call createTDDSession on the legacy surface
LegacyCreateTDDSession ==
  \E projectId \in {"", "auto-project"}, valid \in BOOLEAN :
    LET args == [DefaultArgs EXCEPT !.projectId = projectId, !.valid = valid]
        h == legacyCallTool("createTDDSession", args, features, sessions, dirs, currentSessionId, now)
    IN /\ TotalLines(h.sessions) <= MaxSessions
       /\ features' = h.features
       /\ sessions' = h.sessions
       /\ dirs' = h.dirs
       /\ currentSessionId' = h.cur
       /\ last' = ToolCall("createTDDSession", args.id, "", h)
       /\ UNCHANGED <<now, uuid, race, stdioVars, locale, testMethods>>

\* tools/call updateTDDStage on the legacy surface
LegacyUpdateTDDStage ==
  \E id \in SessionIds, stage \in TDDStage :
    LET args == [DefaultArgs EXCEPT !.id = id, !.stage = stage]
        h == legacyCallTool("updateTDDStage", args, features, sessions, dirs, currentSessionId, now)
    IN /\ TotalLines(h.sessions) <= MaxSessions
       /\ features' = h.features
       /\ sessions' = h.sessions
       /\ dirs' = h.dirs
       /\ currentSessionId' = h.cur
       /\ last' = ToolCall("updateTDDStage", args.id, stage, h)
       /\ UNCHANGED <<now, uuid, race, stdioVars, locale, testMethods>>

\* tools/call generate_test_cases on the legacy surface
LegacyGenerateTestCases ==
  \E language \in Languages, framework \in Frameworks :
    LET args == [DefaultArgs EXCEPT !.language = language, !.framework = framework]
        h == legacyCallTool("generate_test_cases", args, features, sessions, dirs, currentSessionId, now)
    IN /\ TotalLines(h.sessions) <= MaxSessions
       /\ features' = h.features
       /\ sessions' = h.sessions
       /\ dirs' = h.dirs
       /\ currentSessionId' = h.cur
       /\ last' = ToolCall("generate_test_cases", args.id, framework, h)
       /\ UNCHANGED <<now, uuid, race, stdioVars, locale, testMethods>>

\* tools/call updateFeatureStatus on the legacy surface
LegacyUpdateFeatureStatus ==
  \E id \in ExternalIds \cup {UnknownId} :
    LET args == [DefaultArgs EXCEPT !.id = id, !.stage = "completed"]
        h == legacyCallTool("updateFeatureStatus", args, features, sessions, dirs, currentSessionId, now)
    IN /\ TotalLines(h.sessions) <= MaxSessions
       /\ features' = h.features
       /\ sessions' = h.sessions
       /\ dirs' = h.dirs
       /\ currentSessionId' = h.cur
       /\ last' = ToolCall("updateFeatureStatus", args.id, "completed", h)
       /\ UNCHANGED <<now, uuid, race, stdioVars, locale, testMethods>>

\* tools/call with a name the legacy surface does not know
LegacyUnknownTool ==
  LET args == DefaultArgs
      h == legacyCallTool("no_such_tool", args, features, sessions, dirs, currentSessionId, now)
  IN /\ TotalLines(h.sessions) <= MaxSessions
     /\ features' = h.features
     /\ sessions' = h.sessions
     /\ dirs' = h.dirs
     /\ currentSessionId' = h.cur
     /\ last' = ToolCall("no_such_tool", args.id, "", h)
     /\ UNCHANGED <<now, uuid, race, stdioVars, locale, testMethods>>

\* tools/call tdd on the simplified surface
NewTDD ==
  \E a \in TDDArgs :
    LET args == a
        h == newCallTool("tdd", args, features, sessions, dirs, currentSessionId, now, locale)
    IN /\ TotalLines(h.sessions) <= MaxSessions
       /\ features' = h.features
       /\ sessions' = h.sessions
       /\ dirs' = h.dirs
       /\ currentSessionId' = h.cur
       /\ last' = ToolCall("new.tdd", args.id, a.command, h)
       /\ UNCHANGED <<now, uuid, race, stdioVars, locale, testMethods>>

\* tools/call feature on the simplified surface
NewFeature ==
  \E a \in StubArgs({"", "update", "invalid"}) :
    LET args == a
        h == newCallTool("feature", args, features, sessions, dirs, currentSessionId, now, locale)
    IN /\ TotalLines(h.sessions) <= MaxSessions
       /\ features' = h.features
       /\ sessions' = h.sessions
       /\ dirs' = h.dirs
       /\ currentSessionId' = h.cur
       /\ last' = ToolCall("new.feature", args.id, a.command, h)
       /\ UNCHANGED <<now, uuid, race, stdioVars, locale, testMethods>>

\* tools/call tracking on the simplified surface
NewTracking ==
  \E a \in StubArgs({"", "result", "invalid"}) :
    LET args == a
        h == newCallTool("tracking", args, features, sessions, dirs, currentSessionId, now, locale)
    IN /\ TotalLines(h.sessions) <= MaxSessions
       /\ features' = h.features
       /\ sessions' = h.sessions
       /\ dirs' = h.dirs
       /\ currentSessionId' = h.cur
       /\ last' = ToolCall("new.tracking", args.id, a.command, h)
       /\ UNCHANGED <<now, uuid, race, stdioVars, locale, testMethods>>

\* tools/call with a name the simplified surface does not know
NewUnknownTool ==
  LET args == DefaultArgs
      h == newCallTool("unknown", args, features, sessions, dirs, currentSessionId, now, locale)
  IN /\ TotalLines(h.sessions) <= MaxSessions
     /\ features' = h.features
     /\ sessions' = h.sessions
     /\ dirs' = h.dirs
     /\ currentSessionId' = h.cur
     /\ last' = ToolCall("new.unknown", args.id, "", h)
     /\ UNCHANGED <<now, uuid, race, stdioVars, locale, testMethods>>

\* the values of the environment variable USE_NEW_TOOLS; "" when it is not set
EnvValues == {"true", "false", "TRUE", ""}

\* a selection that takes every value that is set as true
useNewTools_set(env) == env # ""

\* const useNewTools = process.env.USE_NEW_TOOLS === 'true'
useNewTools(env) == env = "true"

\* the names listed by the ListTools handler the server registered
serverListTools(env, l) ==
  IF useNewTools(env)
  THEN [i \in 1..Len(newListTools(l)) |-> newListTools(l)[i].name]
  ELSE legacyListTools

\* tools/list on a server started with the given USE_NEW_TOOLS
ListTools ==
  \E env \in EnvValues :
    /\ last' = [NoCall("listTools") EXCEPT !.val = env, !.text = serverListTools(env, locale)]
    /\ UNCHANGED <<features, sessions, currentSessionId, dirs, now, uuid, race, stdioVars,
                   locale, testMethods>>

\* I18nService.setLocale(locale) with a supported locale
SetLocale ==
  \E l \in SupportedLocale :
    /\ locale' = l
    /\ last' = [NoCall("setLocale") EXCEPT !.val = l]
    /\ UNCHANGED <<features, sessions, currentSessionId, dirs, now, uuid, race, stdioVars,
                   testMethods>>

NextTools ==
  \/ Tick
  \/ SetLocale
  \/ ListTools
  \/ LegacyCreateTDDSession
  \/ LegacyUpdateTDDStage
  \/ LegacyGenerateTestCases
  \/ LegacyUpdateFeatureStatus
  \/ LegacyUnknownTool
  \/ NewTDD
  \/ NewFeature
  \/ NewTracking
  \/ NewUnknownTool

SpecTools == Init /\ [][NextTools]_vars

----------------------------------------------------------------------------
(* Properties of the tool surfaces, checked under SpecTools *)

NewSurfaceCalls == {"new.tdd", "new.feature", "new.tracking", "new.unknown"}
LegacySurfaceCalls ==
  {"createTDDSession", "updateTDDStage", "generate_test_cases", "updateFeatureStatus",
   "no_such_tool"}

\* the stage a successful tdd command leaves in the current session; "" when
\* the command sets none
StageSetBy(command) ==
  CASE command = "" -> "refactor"
    [] command = "generate" -> "red"
    [] command = "implement" -> "green"
    [] command = "refactor" -> "refactor"
    [] OTHER -> ""

\* C8 as stated: after a tool call on a handler that has no current session,
\* one session record with stage red and cycle count 0 has been stored and is
\* the handler's current session.
C8_AnyFirstCallCreatesRedSession ==
  [][(last'.op \in NewSurfaceCalls /\ currentSessionId = UnknownId)
       => /\ currentSessionId' # UnknownId
          /\ TotalLines(sessions') = TotalLines(sessions) + 1
          /\ \E pi \in LinesWithId(sessions', currentSessionId') :
               /\ pi \notin LinesWithId(sessions, currentSessionId')
               /\ sessions'[pi[1]][pi[2]].stage = "red"
               /\ sessions'[pi[1]][pi[2]].cycleCount = 0]_vars

\* C8 amended: the first tdd call on a handler that has no current session
\* appends one session record (cycle count 0, created in stage red, started
\* now) to the auto-project file and makes its id the current session id; the
\* stage stored under that id is then the one the call's command sets, and the
\* new record itself is red or at that stage.  When the session data is invalid
\* or the call has no arguments the call raises, and no session is stored or
\* kept.  A feature, tracking or unknown-tool call stores no session.
C8_FirstTddCallCreatesSession ==
  [][(last'.op \in NewSurfaceCalls /\ currentSessionId = UnknownId)
       => IF last'.op # "new.tdd" \/ last'.raised
          THEN sessions' = sessions /\ currentSessionId' = UnknownId
          ELSE LET file == sessions'["auto-project"]
                   new == file[Len(file)]
                   moved == IF last'.ok THEN StageSetBy(last'.val) ELSE ""
               IN /\ currentSessionId' = now
                  /\ Len(file) = Len(sessions["auto-project"]) + 1
                  /\ \A p \in Projects \ {"auto-project"} :
                       Len(sessions'[p]) = Len(sessions[p])
                  /\ new.id = currentSessionId'
                  /\ new.cycleCount = 0
                  /\ new.startedAt = ToISOString(now)
                  /\ new.stage \in {"red", moved}
                  /\ LinesWithId(sessions, now) = {} =>
                       new.stage = (IF moved = "" THEN "red" ELSE moved)
                  /\ moved # "" =>
                       loadTDDSession(sessions', dirs', currentSessionId').stage = moved]_vars

C8_Witness ==
  /\ last.op = "new.tdd"
  /\ last.prev = "no session"
  /\ last.val = "implement"
  /\ last.ok
  /\ currentSessionId = now
  /\ Len(sessions["auto-project"]) = 1
  /\ sessions["auto-project"][1].id = currentSessionId
  /\ sessions["auto-project"][1].stage = "green"
  /\ sessions["auto-project"][1].cycleCount = 0

\* C9: an updateTDDStage call for a stored session succeeds whatever stage the
\* session is in and whatever stage is asked for, and the session then has the
\* stage asked for: no transition between red, green and refactor is refused.
C9_AnyStageToAnyStage ==
  [][(last'.op = "updateTDDStage" /\ LinesWithId(sessions, last'.id) # {})
       => /\ last'.ok
          /\ ~last'.raised
          /\ last'.val \in TDDStage
          /\ last'.prev = loadTDDSession(sessions, dirs, last'.id).stage
          /\ loadTDDSession(sessions', dirs', last'.id).stage = last'.val
          /\ TotalLines(sessions') = TotalLines(sessions)]_vars

C9_Witness ==
  /\ last.op = "updateTDDStage"
  /\ last.ok
  /\ last.prev = "refactor"
  /\ last.val = "red"
  /\ loadTDDSession(sessions, dirs, last.id).stage = "red"

\* C10: no callTool of either surface throws, and whenever an error was raised
\* while the call was handled, or the tool is unknown, the result has
\* isError: true and a non-empty text message.
C10_ErrorsBecomeResults ==
  last.op \in NewSurfaceCalls \cup LegacySurfaceCalls
    => /\ ~last.thrown
       /\ last.raised => (~last.ok /\ last.err # "")
       /\ last.op \in {"no_such_tool", "new.unknown"} =>
            (~last.ok /\ last.err = "Unknown tool")

C10_Witness ==
  /\ last.op = "generate_test_cases"
  /\ last.val = "junit5"
  /\ last.raised
  /\ ~last.ok
  /\ ~last.thrown
  /\ last.err = "Framework is not supported for language"

\* C26 as stated: a tdd tool call that returns an error result (missing
\* requirements, implement without testCode, invalid command) leaves the store
\* unchanged: it creates no session record and changes no session's stage.
C26_ErrorCallLeavesStoreUnchanged ==
  [][(last'.op = "new.tdd" /\ ~last'.ok /\ ~last'.raised)
       => (sessions' = sessions /\ features' = features /\ dirs' = dirs)]_vars

\* C26 amended: a tdd tool call that returns an error result changes no
\* session's stage and no stored record; on a handler that has a current
\* session it leaves the store unchanged, on a handler without one it appends
\* the auto-created session (stage red) to the auto-project file, makes it the
\* current session and changes nothing else.  A call that raised (no arguments,
\* invalid session data) stores nothing.
C26_ErrorCallOnlyAutoCreates ==
  [][(last'.op = "new.tdd" /\ ~last'.ok)
       => /\ features' = features
          /\ IF currentSessionId # UnknownId \/ last'.raised
             THEN /\ sessions' = sessions
                  /\ dirs' = dirs
                  /\ currentSessionId' = currentSessionId
             ELSE /\ sessions' = [sessions EXCEPT !["auto-project"] =
                                   Append(@, JSONStringify(NewSession("auto-project", now)))]
                  /\ dirs' = dirs \cup {"auto-project"}
                  /\ currentSessionId' = now]_vars

\* an invalid command was answered with an error on a handler whose session is
\* at green, and the session still is
C26_Witness ==
  /\ last.op = "new.tdd"
  /\ last.val = "invalid"
  /\ ~last.ok
  /\ ~last.raised
  /\ last.prev = ""
  /\ currentSessionId # UnknownId
  /\ loadTDDSession(sessions, dirs, currentSessionId).stage = "green"

\* C28: the current session's stored stage tracks the red, green, refactor
\* cycle: after a successful generate it is red, after implement it is green,
\* after refactor or a full default workflow it is refactor, and test, coverage
\* and validate leave it unchanged.
C28_StageTracksCycle ==
  [][(last'.op = "new.tdd" /\ last'.ok)
       => LET before == loadTDDSession(sessions, dirs, currentSessionId)
              after == loadTDDSession(sessions', dirs', currentSessionId')
          IN /\ currentSessionId' # UnknownId
             /\ after.id = currentSessionId'
             /\ last'.val = "generate" => after.stage = "red"
             /\ last'.val = "implement" => after.stage = "green"
             /\ last'.val \in {"refactor", ""} => after.stage = "refactor"
             /\ (last'.val \in {"test", "coverage", "validate"}
                  /\ currentSessionId # UnknownId)
                  => (after.stage = before.stage /\ sessions' = sessions)]_vars

\* tests were run on a handler whose session had been moved to green by
\* implement, and the session is still at green
C28_Witness ==
  /\ last.op = "new.tdd"
  /\ last.val = "test"
  /\ last.ok
  /\ last.prev = ""
  /\ currentSessionId # UnknownId
  /\ loadTDDSession(sessions, dirs, currentSessionId).stage = "green"

----------------------------------------------------------------------------
(* Concurrent store calls: every await of an fs call is a point where another
   call can run.  A saveTDDSession (append) runs beside an
   updateTDDSessionStage, whose read and rewrite are separate steps. *)

MaxRaceSessions == 2     \* at most this many lines over all session files

\* saveTDDSession of a new session, start to finish: appendFile is one write
RaceSave ==
  \E projectId \in {"auto-project", "default-project"} :
    LET session == NewSession(projectId, now)
        r == saveTDDSession(sessions, dirs, session, TRUE)
    IN /\ TotalLines(sessions) < MaxRaceSessions
       /\ sessions' = r.files
       /\ dirs' = r.dirs
       /\ race' = IF race.pc = "read" /\ race.project = projectId
                  THEN [race EXCEPT !.appended = Append(@, session.id)]
                  ELSE race
       /\ last' = Call("saveTDDSession", session.id, "", r)
       /\ UNCHANGED <<features, currentSessionId, now, uuid, stdioVars, locale, testMethods>>

\* updateTDDSessionStage up to its await of writeJsonlFile: the files are read,
\* the first match found and changed in memory
RaceUpdateRead ==
  \E id \in SessionIds, stage \in TDDStage :
    LET lists == [p \in Projects |-> readJsonlFile(sessions[p])]
        p == FirstProjectWith(lists, listProjects(dirs), id)
    IN /\ race.pc # "read"
       /\ race' = IF p = "none"
                  THEN [NoUpdate EXCEPT !.pc = "done", !.id = id]
                  ELSE [pc |-> "read", id |-> id, project |-> p,
                        items |-> [lists[p] EXCEPT ![findIndex(lists[p], id)] =
                                     assign(@, [stage |-> stage, updatedAt |-> now])],
                        appended |-> <<>>, ok |-> FALSE]
       /\ last' = [NoCall("updateTDDSessionStage.read") EXCEPT !.id = id, !.val = stage]
       /\ UNCHANGED <<features, sessions, currentSessionId, dirs, now, uuid, stdioVars, locale, testMethods>>

\* the rest of updateTDDSessionStage: the file is rewritten from the list in
\* memory and the call returns true
RaceUpdateWrite ==
  /\ race.pc = "read"
  /\ sessions' = [sessions EXCEPT ![race.project] = writeJsonlFile(@, race.items)]
  /\ race' = [race EXCEPT !.pc = "done", !.ok = TRUE]
  /\ last' = [NoCall("updateTDDSessionStage.write") EXCEPT !.id = race.id]
  /\ UNCHANGED <<features, currentSessionId, dirs, now, uuid, stdioVars, locale, testMethods>>

NextRace ==
  \/ Tick
  \/ RaceSave
  \/ RaceUpdateRead
  \/ RaceUpdateWrite

SpecRace == Init /\ [][NextRace]_vars

\* C6: when an update's rewrite lands, the file holds exactly the records the
\* update had read: every record appended to that file between the update's
\* read and its rewrite is gone, although the save and the update both
\* completed successfully.
C6_AppendLostByRewrite ==
  [][(race.pc = "read" /\ race'.pc = "done")
       => /\ race'.ok
          /\ readJsonlFile(sessions'[race.project]) = race.items
          /\ Len(sessions'[race.project]) + Len(race.appended) =
               Len(sessions[race.project])]_vars

C6_Witness ==
  /\ race.pc = "done"
  /\ race.ok
  /\ last.op = "updateTDDSessionStage.write"
  /\ Len(race.appended) = 1
  /\ LinesWithId(sessions, race.appended[1]) = {}
  /\ LinesWithId(sessions, race.id) # {}

----------------------------------------------------------------------------
(* The raw stdio front end: stdio-server.js *)

MaxStdinLines == 2       \* at most this many lines arrive on standard input

\* the lines a client can send: a tools/list request carrying an id, a
\* tools/call request without params, a line cut short, and a blank line
Request(id) == <<"{", id, "}">>
CallWithoutParams(id) == <<"{", id, "!", "}">>
LineShapes == {Request("1"), Request("2"), CallWithoutParams("1"), <<"{", "1">>, <<" ">>}

RECURSIVE Flatten(_)
Flatten(lines) ==
  IF lines = <<>> THEN <<>> ELSE Head(lines) \o <<"\n">> \o Flatten(Tail(lines))

Streams ==
  UNION { { Flatten(ls) : ls \in [1..n -> LineShapes] } : n \in 1..MaxStdinLines }

\* buffer.indexOf('\n'); 0 stands for -1
indexOfNewline(buf) ==
  IF \E i \in 1..Len(buf) : buf[i] = "\n"
  THEN CHOOSE i \in 1..Len(buf) : buf[i] = "\n" /\ \A j \in 1..(i - 1) : buf[j] # "\n"
  ELSE 0

\* JSON.parse(line): a message with its id and method, or a SyntaxError
JSONParse(line) ==
  LET text == Trim(line)
  IN IF Len(text) = 3 /\ text[1] = "{" /\ text[3] = "}" /\ text[2] \in {"1", "2"}
     THEN [ok |-> TRUE, id |-> text[2], method |-> "tools/list", params |-> FALSE]
     ELSE IF Len(text) = 4 /\ text[1] = "{" /\ text[4] = "}" /\ text[3] = "!"
               /\ text[2] \in {"1", "2"}
     THEN [ok |-> TRUE, id |-> text[2], method |-> "tools/call", params |-> FALSE]
     ELSE [ok |-> FALSE, id |-> "", method |-> "", params |-> FALSE]

\* handleMessage: the response carries the id of the message; destructuring
\* the params of a tools/call that has none throws a TypeError
handleMessage(message) ==
  IF message.method = "tools/call" /\ ~message.params
  THEN [threw |-> TRUE, jsonrpc |-> "2.0", id |-> message.id]
  ELSE [threw |-> FALSE, jsonrpc |-> "2.0", id |-> message.id]

\* a handleMessage that returns a promise the loop does not wait for
pcAfterCall_async == "loop"

\* handleMessage(message) is an ordinary call: the loop continues when it returns
pcAfterCall == "handle"

InitStdio ==
  /\ features = EmptyFiles
  /\ sessions = EmptyFiles
  /\ dirs = {}
  /\ now = StartTime
  /\ uuid = 0
  /\ currentSessionId = UnknownId
  /\ last = NoCall("init")
  /\ race = NoUpdate
  /\ input \in Streams
  /\ buffer = <<>>
  /\ out = <<>>
  /\ pc = "idle"
  /\ inflight = <<>>
  /\ locale = defaultLocale
  /\ testMethods = EmptyFiles

\* process.stdin.on('data'): a chunk arrives and is added to the buffer
StdinData ==
  /\ pc = "idle"
  /\ \E n \in 1..Len(input) :
       /\ buffer' = buffer \o SubSeq(input, 1, n)
       /\ input' = SubSeq(input, n + 1, Len(input))
  /\ pc' = "loop"
  /\ UNCHANGED <<out, inflight, storeVars, race, locale, testMethods>>

\* one turn of the while loop: the next complete line is cut off the buffer,
\* parsed and handed to handleMessage; without a newline the listener returns
NextLine ==
  /\ pc = "loop"
  /\ LET newlineIndex == indexOfNewline(buffer)
         line == SubSeq(buffer, 1, newlineIndex - 1)
         m == JSONParse(line)
     IN IF newlineIndex = 0
        THEN pc' = "idle" /\ UNCHANGED <<buffer, inflight>>
        ELSE /\ buffer' = SubSeq(buffer, newlineIndex + 1, Len(buffer))
             /\ IF Trim(line) # <<>> /\ m.ok
                THEN inflight' = Append(inflight, m) /\ pc' = pcAfterCall
                ELSE pc' = "loop" /\ UNCHANGED inflight
  /\ UNCHANGED <<input, out, storeVars, race, locale, testMethods>>

\* handleMessage returns and its response is written to standard output, or
\* it throws and the catch block logs the error
Respond ==
  /\ inflight # <<>>
  /\ LET response == handleMessage(Head(inflight))
     IN out' = IF response.threw THEN out ELSE Append(out, response)
  /\ inflight' = Tail(inflight)
  /\ pc' = IF pc = "handle" THEN "loop" ELSE pc
  /\ UNCHANGED <<input, buffer, storeVars, race, locale, testMethods>>

NextStdio ==
  \/ StdinData
  \/ NextLine
  \/ Respond

SpecStdio == InitStdio /\ [][NextStdio]_vars

RECURSIVE CompleteLines(_)
CompleteLines(text) ==
  IF indexOfNewline(text) = 0 THEN <<>>
  ELSE <<SubSeq(text, 1, indexOfNewline(text) - 1)>>
       \o CompleteLines(SubSeq(text, indexOfNewline(text) + 1, Len(text)))

\* a well-formed request line: a JSON-RPC request object with an id and a method
IsRequestLine(line) ==
  \E id \in {"1", "2"} : Trim(line) \in {Request(id), CallWithoutParams(id)}

\* the ids of the well-formed request lines among the complete lines of a text
RequestIdsOf(text) ==
  LET requests == SelectSeq(CompleteLines(text), IsRequestLine)
  IN [i \in 1..Len(requests) |-> Trim(requests[i])[2]]

IdsOf(written) == [i \in 1..Len(written) |-> written[i].id]

\* C30: the responses correspond one-to-one and in order to the complete
\* well-formed request lines received, each carrying its request's id, however
\* the input is split into chunks and whatever malformed lines lie in between.
\* Nothing is answered at the start, so it is stated as a step property: the
\* ids of the responses written, then of the request being handled, then of
\* the request lines not yet read, are at every step the ids of the request
\* lines of the whole input.
C30_ResponsesMatchRequests ==
  [][IdsOf(out') \o IdsOf(inflight') \o RequestIdsOf(buffer' \o input')
       = IdsOf(out) \o IdsOf(inflight) \o RequestIdsOf(buffer \o input)]_vars

----------------------------------------------------------------------------
(* Properties of the texts of the simplified surface, checked under SpecTools *)

\* the calls of the simplified surface that lack a field the command requires:
\* tdd without command and requirements, tdd generate without requirements,
\* tdd implement without testCode, feature without name and query, tracking
\* register without its fields
MissingFieldCalls ==
  { <<"tdd", a>> : a \in { x \in TDDArgs :
       /\ ~x.noArgs
       /\ x.valid
       /\ \/ x.command \in {"", "generate"} /\ ~x.hasReq
          \/ x.command = "implement" /\ ~x.hasTestCode } } \cup
  { <<"feature", a>> : a \in { x \in StubArgs({"", "update"}) : ~x.noArgs /\ ~x.hasName } } \cup
  { <<"tracking", a>> : a \in { x \in StubArgs({""}) : ~x.noArgs /\ ~x.hasName } }

\* the texts of the table of a locale
TableTexts(l) == { messages[l][k] : k \in MessageKeys }

\* C11: a call that lacks a required field returns, without throwing, an error
\* result whose message is a text of the table of the current locale.
C11_MissingFieldErrorsLocalized ==
  \A c \in MissingFieldCalls :
    LET h == newCallTool(c[1], c[2], features, sessions, dirs, currentSessionId, now, locale)
    IN /\ h.isError
       /\ ~h.thrown
       /\ h.err \in TableTexts(locale)

\* the arguments {requirements: "x"}: no command and nothing else
OnlyRequirements == [DefaultArgs EXCEPT !.hasReq = TRUE]

\* the lines of a text that hold the step 生成测试用例, and those that hold the
\* step 生成最小实现
LinesGenerateTests(text) == { i \in 1..Len(text) : text[i] = "(v) shengcheng ceshi yongli" }
LinesMinimalImplementation(text) ==
  { i \in 1..Len(text) : text[i] = "(v) shengcheng zuixiao shixian" }

\* C12: in every state and under either locale, a tdd call with only
\* requirements and no command returns a result that is not an error and whose
\* text holds the step 生成测试用例 and, on a later line, the step 生成最小实现.
C12_DefaultWorkflowSteps ==
  LET h == newCallTool("tdd", OnlyRequirements, features, sessions, dirs,
                       currentSessionId, now, locale)
  IN /\ ~h.isError
     /\ ~h.thrown
     /\ ~h.raised
     /\ LinesGenerateTests(h.text) # {}
     /\ \A i \in LinesGenerateTests(h.text) :
          \E j \in LinesMinimalImplementation(h.text) : i < j

C12_Witness ==
  /\ last.op = "new.tdd"
  /\ last.val = ""
  /\ last.ok
  /\ locale = "en"
  /\ last.text = fullWorkflowMessage
  /\ LinesGenerateTests(last.text) = {2}
  /\ LinesMinimalImplementation(last.text) = {3}

\* C13: tools/list on a server started with USE_NEW_TOOLS=false returns
\* exactly 15 tool definitions, all with different names, and on a server
\* started with USE_NEW_TOOLS=true exactly the 3 tools tdd, feature, tracking.
C13_ToolCounts ==
  last.op = "listTools" =>
    /\ last.val = "false" =>
         /\ Len(last.text) = 15
         /\ Cardinality(Range(last.text)) = 15
         /\ Range(last.text) \cap {"tdd", "feature", "tracking"} = {}
    /\ last.val = "true" =>
         /\ Len(last.text) = 3
         /\ last.text = <<"tdd", "feature", "tracking">>

C13_Witness ==
  /\ last.op = "listTools"
  /\ last.val = "true"
  /\ locale = "zh"
  /\ Len(last.text) = 3

\* every tools/call request the simplified surface is driven with
NewSurfaceRequests ==
  { [name |-> "tdd", args |-> a] : a \in TDDArgs } \cup
  { [name |-> "feature", args |-> a] : a \in StubArgs({"", "update", "invalid"}) } \cup
  { [name |-> "tracking", args |-> a] : a \in StubArgs({"", "result", "invalid"}) } \cup
  { [name |-> "unknown", args |-> DefaultArgs] }

\* a call's outcome without its message strings
WithoutText(h) == [h EXCEPT !.err = "", !.text = <<>>]

\* the result of the request in the present state of the store, under locale l
UnderLocale(r, l) ==
  newCallTool(r.name, r.args, features, sessions, dirs, currentSessionId, now, l)

ToolNames(l) == [i \in 1..Len(newListTools(l)) |-> newListTools(l)[i].name]

\* C20: locale selection affects only text.  In every state a run reaches,
\* under either locale, each tool call has under zh and under en the same
\* success-or-error outcome and leaves the same stored records, and the tool
\* list has the same names; so two runs of the same calls, one under zh and one
\* under en, stay in the same store state call after call.  Only the
\* descriptions and the message strings differ.
C20_LocaleAffectsOnlyText ==
  /\ ToolNames("zh") = ToolNames("en")
  /\ \A r \in NewSurfaceRequests :
       WithoutText(UnderLocale(r, "zh")) = WithoutText(UnderLocale(r, "en"))

\* a tdd call without command and requirements ran under zh: it stored a
\* session and was answered with the Chinese text, where en has another text
C20_Witness ==
  /\ locale = "zh"
  /\ last.op = "new.tdd"
  /\ ~last.ok
  /\ last.err = messages["zh"]["error.invalid_params"]
  /\ last.err # messages["en"]["error.invalid_params"]
  /\ TotalLines(sessions) > 0
  /\ newListTools("zh")[1].description # newListTools("en")[1].description

----------------------------------------------------------------------------
(* TestRunnerService.runTests: feature-management.service.ts *)

MaxTests == 1        \* a parsed test run reports at most this many passed and failed tests

\* the framework names callers pass to runTests
RunnerFrameworks == {"jest", "Jest", "junit5", "JUnit 5", "karma"}

\* String.prototype.toLowerCase on the names callers pass
nameToLowerCase(str) == IF str = "karma" THEN "karma" ELSE toLowerCase(str)

null == [key |-> "", language |-> "", name |-> ""]

\* getFrameworkConfig: the entry whose name or key is the given name, or null
getFrameworkConfig(frameworkName) ==
  LET matches == { f \in SUPPORTED_FRAMEWORKS :
                     \/ toLowerCase(f.name) = nameToLowerCase(frameworkName)
                     \/ f.key = nameToLowerCase(frameworkName) }
  IN IF matches = {} THEN null ELSE CHOOSE f \in matches : TRUE

\* how execAsync(command) ends: the promise resolves when the command exits
\* with code 0, and rejects when it exits with another code, when the shell
\* does not find the runner (code 127) and when the timeout kills it
ExecOutcomes == {"exit 0", "exit 1", "exit 127", "killed by timeout"}

\* the totals of a TestResults
Totals(passed, failed) ==
  [total |-> passed + failed, passed |-> passed, failed |-> failed, skipped |-> 0,
   duration |-> 0]

\* what parseTestResults makes of the output of a run: totals, or an error
ParseOutcomes ==
  { [threw |-> FALSE, overall |-> Totals(p, f)] : p \in 0..MaxTests, f \in 0..MaxTests } \cup
  { [threw |-> TRUE, overall |-> Totals(0, 0)] }

\* a runTests whose catch block throws the error again
handleTestError_rethrow(error, framework) ==
  [threw |-> TRUE, err |-> error, framework |-> framework, suites |-> <<>>,
   overall |-> Totals(0, 0)]

\* handleTestError: one suite with one failed test that carries the message
handleTestError(error, framework) ==
  [threw |-> FALSE, err |-> "", framework |-> framework,
   suites |-> << [name |-> "Test Execution Error",
                  tests |-> << [name |-> "Test Runner Error", status |-> "failed",
                                duration |-> 0, error |-> error] >>,
                  summary |-> [total |-> 1, passed |-> 0, failed |-> 1, skipped |-> 0,
                               duration |-> 0]] >>,
   overall |-> [total |-> 1, passed |-> 0, failed |-> 1, skipped |-> 0, duration |-> 0]]

\* runTests: the framework and the project path are checked before the try
\* block; the command and the parsing of its results run inside it
runTests(testFramework, isDirectory, exec, parsed) ==
  IF getFrameworkConfig(testFramework) = null
  THEN [threw |-> TRUE, err |-> "Unsupported test framework", framework |-> testFramework,
        suites |-> <<>>, overall |-> Totals(0, 0)]
  ELSE IF ~isDirectory
  THEN [threw |-> TRUE, err |-> "Invalid project path", framework |-> testFramework,
        suites |-> <<>>, overall |-> Totals(0, 0)]
  ELSE IF exec # "exit 0"
  THEN handleTestError(exec, testFramework)
  ELSE IF parsed.threw
  THEN handleTestError("parse error", testFramework)
  ELSE [threw |-> FALSE, err |-> "", framework |-> getFrameworkConfig(testFramework).key,
        suites |-> <<>>, overall |-> parsed.overall]

\* a call of runTests
RunTests ==
  \E testFramework \in RunnerFrameworks, isDirectory \in BOOLEAN,
     exec \in ExecOutcomes, parsed \in ParseOutcomes :
    /\ last' = [op |-> "runTests", testFramework |-> testFramework,
                isDirectory |-> isDirectory, exec |-> exec,
                result |-> runTests(testFramework, isDirectory, exec, parsed)]
    /\ UNCHANGED <<features, sessions, currentSessionId, dirs, now, uuid, race, stdioVars,
                   locale, testMethods>>

\* C14: when the framework is supported and the project path is a directory,
\* a run whose subprocess fails (non-zero exit, runner not found, timeout) does
\* not throw and returns one suite with one failed test: total 1, passed 0,
\* failed 1.
C14_SubprocessFailureIsOneFailedTest ==
  (/\ last.op = "runTests"
   /\ getFrameworkConfig(last.testFramework) # null
   /\ last.isDirectory
   /\ last.exec # "exit 0")
    => /\ ~last.result.threw
       /\ last.result.overall.total = 1
       /\ last.result.overall.passed = 0
       /\ last.result.overall.failed = 1
       /\ Len(last.result.suites) = 1
       /\ Len(last.result.suites[1].tests) = 1
       /\ last.result.suites[1].tests[1].status = "failed"

C14_Witness ==
  /\ last.op = "runTests"
  /\ last.testFramework = "junit5"
  /\ last.isDirectory
  /\ last.exec = "killed by timeout"
  /\ ~last.result.threw
  /\ last.result.overall.failed = 1

----------------------------------------------------------------------------
(* Reading files that hold lines the store did not write *)

MaxFileLines == 3    \* a session file found on disk has at most this many lines

\* the lines found in a session file: two session records, a line that is not
\* JSON, a blank line and a line that is JSON but no record
FoundLines ==
  { JSONStringify(NewSession("alpha", 999)),
    JSONStringify([NewSession("alpha", 1001) EXCEPT !.stage = "green"]),
    MalformedLine, BlankLine, ScalarLine }

FoundFiles == UNION { [1..n -> FoundLines] : n \in 0..MaxFileLines }

InitRead ==
  /\ features = EmptyFiles
  /\ sessions \in { [EmptyFiles EXCEPT !["alpha"] = f] : f \in FoundFiles }
  /\ dirs = {"alpha"}
  /\ now = StartTime
  /\ uuid = 0
  /\ currentSessionId = UnknownId
  /\ last = NoCall("init")
  /\ race = NoUpdate
  /\ input = <<>>
  /\ buffer = <<>>
  /\ out = <<>>
  /\ pc = "idle"
  /\ inflight = <<>>
  /\ locale = defaultLocale
  /\ testMethods = EmptyFiles

\* StorageService.listTDDSessions(projectId)
listTDDSessions(ss, projectId) == readJsonlFile(ss[projectId])

\* a call of listTDDSessions
ListTDDSessions ==
  \E projectId \in {"alpha", "beta"} :
    /\ last' = [op |-> "listTDDSessions", projectId |-> projectId,
                result |-> listTDDSessions(sessions, projectId)]
    /\ UNCHANGED <<features, sessions, currentSessionId, dirs, now, uuid, race, stdioVars,
                   locale, testMethods>>

NextRead ==
  \/ Tick
  \/ ListTDDSessions

SpecRead == InitRead /\ [][NextRead]_vars

\* the lines of a file that hold JSON, and the position each of them has among
\* those lines
JsonLines(file) == { i \in 1..Len(file) : file[i] \notin {MalformedLine, BlankLine} }
RankAmongJsonLines(file, i) == Cardinality({ j \in JsonLines(file) : j <= i })

\* C15: reading a file that holds malformed lines returns a list, whatever the
\* lines are: the list holds one item for every line that is JSON, in file
\* order and with its dates restored, so every well-formed record is in it, and
\* nothing for a malformed or blank line.
C15_MalformedLinesSkipped ==
  last.op = "listTDDSessions" =>
    LET file == sessions[last.projectId]
    IN /\ Len(last.result) = Cardinality(JsonLines(file))
       /\ \A i \in JsonLines(file) :
            last.result[RankAmongJsonLines(file, i)] = restoreDates(file[i])

C15_Witness ==
  /\ last.op = "listTDDSessions"
  /\ last.projectId = "alpha"
  /\ Len(sessions["alpha"]) = 3
  /\ sessions["alpha"][1] = MalformedLine
  /\ sessions["alpha"][2] = JSONStringify(NewSession("alpha", 999))
  /\ sessions["alpha"][3] = MalformedLine
  /\ Len(last.result) = 1
  /\ last.result[1].id = 999
  /\ last.result[1].startedAt = 999

----------------------------------------------------------------------------
(* TestGeneratorService: test-generator.ts.  A string is the sequence of its
   tokens: words, single spaces and sentence punctuation. *)

MaxTokens == 4       \* a requirements string has at most this many tokens

Words == {"should", "Must", "number", "it"}
SentencePunctuation == {".", "!", "?"}
Tokens == Words \cup {" "} \cup SentencePunctuation

\* the requirements strings callers pass
Requirements == UNION { [1..n -> Tokens] : n \in 0..MaxTokens }

\* str.toLowerCase().includes(keyword), for a keyword without spaces
includes(str, keyword) == \E i \in 1..Len(str) : toLowerCase(str[i]) = keyword

\* str.split(/[.!?]+/): the pieces between the runs of punctuation, the empty
\* pieces at both ends included
RECURSIVE split(_)
split(str) ==
  LET puncts == { i \in 1..Len(str) : str[i] \in SentencePunctuation }
      first == CHOOSE i \in puncts : \A j \in puncts : i <= j
      after == { i \in first..Len(str) : str[i] \notin SentencePunctuation }
      next == IF after = {} THEN Len(str) + 1
              ELSE CHOOSE i \in after : \A j \in after : i <= j
  IN IF puncts = {} THEN <<str>>
     ELSE <<SubSeq(str, 1, first - 1)>> \o split(SubSeq(str, next, Len(str)))

\* the test of parseRequirements on a trimmed sentence
hasBehaviorKeyword(trimmed) ==
  \/ includes(trimmed, "should")
  \/ includes(trimmed, "must")
  \/ includes(trimmed, "when")
  \/ includes(trimmed, "given")

\* a parseRequirements without the fallback to the whole string
parseRequirements_nofallback(requirements) ==
  LET sentences == SelectSeq(split(requirements), LAMBDA x : Len(Trim(x)) > 0)
      trimmed == [i \in 1..Len(sentences) |-> Trim(sentences[i])]
  IN SelectSeq(trimmed, hasBehaviorKeyword)

\* parseRequirements
parseRequirements(requirements) ==
  LET sentences == SelectSeq(split(requirements), LAMBDA x : Len(Trim(x)) > 0)
      trimmed == [i \in 1..Len(sentences) |-> Trim(sentences[i])]
      behaviors == SelectSeq(trimmed, hasBehaviorKeyword)
  IN IF Len(behaviors) = 0 THEN <<requirements>> ELSE behaviors

\* an identifyEdgeCases that looks for count only
identifyEdgeCases_count(behavior) ==
  (IF includes(behavior, "count")
   THEN <<"zero value", "negative value", "maximum value">> ELSE <<>>)
  \o (IF includes(behavior, "string") \/ includes(behavior, "text")
      THEN <<"empty string", "very long string", "special characters">> ELSE <<>>)
  \o (IF includes(behavior, "array") \/ includes(behavior, "list")
      THEN <<"empty array", "single element", "very large array">> ELSE <<>>)

\* identifyEdgeCases: the cases of the three groups, the generic ones if none
identifyEdgeCases(behavior) ==
  LET edgeCases ==
        (IF includes(behavior, "number") \/ includes(behavior, "count")
         THEN <<"zero value", "negative value", "maximum value">> ELSE <<>>)
        \o (IF includes(behavior, "string") \/ includes(behavior, "text")
            THEN <<"empty string", "very long string", "special characters">> ELSE <<>>)
        \o (IF includes(behavior, "array") \/ includes(behavior, "list")
            THEN <<"empty array", "single element", "very large array">> ELSE <<>>)
  IN IF Len(edgeCases) = 0 THEN <<"boundary condition", "extreme value">> ELSE edgeCases

\* identifyErrorCases
identifyErrorCases(behavior) == <<"null input", "invalid input", "unauthorized access">>

\* generateHappyPathTest, generateEdgeCaseTests, generateErrorCaseTests: the
\* tests of one behavior, each with the case it is about
testsOfBehavior(behavior) ==
  LET edgeCases == identifyEdgeCases(behavior)
      errorCases == identifyErrorCases(behavior)
  IN <<[behavior |-> behavior, testType |-> "happy_path", specificCase |-> ""]>>
     \o [i \in 1..Len(edgeCases) |->
           [behavior |-> behavior, testType |-> "edge_case", specificCase |-> edgeCases[i]]]
     \o [i \in 1..Len(errorCases) |->
           [behavior |-> behavior, testType |-> "error_case", specificCase |-> errorCases[i]]]

\* generateTestCases: the tests of every behavior of the requirements, in order
RECURSIVE testsOfBehaviors(_)
testsOfBehaviors(behaviors) ==
  IF behaviors = <<>> THEN <<>>
  ELSE testsOfBehavior(Head(behaviors)) \o testsOfBehaviors(Tail(behaviors))

generateTestCases(requirements) == testsOfBehaviors(parseRequirements(requirements))

\* a caller holds a requirements string
InitGenerator ==
  /\ features = EmptyFiles
  /\ sessions = EmptyFiles
  /\ dirs = {}
  /\ now = StartTime
  /\ uuid = 0
  /\ currentSessionId = UnknownId
  /\ last \in { [op |-> "requirements", requirements |-> r] : r \in Requirements }
  /\ race = NoUpdate
  /\ input = <<>>
  /\ buffer = <<>>
  /\ out = <<>>
  /\ pc = "idle"
  /\ inflight = <<>>
  /\ locale = defaultLocale
  /\ testMethods = EmptyFiles

\* a call of parseRequirements
ParseRequirements ==
  /\ last.op = "requirements"
  /\ last' = [op |-> "parseRequirements", requirements |-> last.requirements,
              result |-> parseRequirements(last.requirements)]
  /\ UNCHANGED <<features, sessions, currentSessionId, dirs, now, uuid, race, stdioVars,
                 locale, testMethods>>

\* a call of generateTestCases
GenerateTestCases ==
  /\ last.op = "requirements"
  /\ last' = [op |-> "generateTestCases", requirements |-> last.requirements,
              result |-> generateTestCases(last.requirements)]
  /\ UNCHANGED <<features, sessions, currentSessionId, dirs, now, uuid, race, stdioVars,
                 locale, testMethods>>

NextGenerator ==
  \/ ParseRequirements
  \/ GenerateTestCases

SpecGenerator == InitGenerator /\ [][NextGenerator]_vars

\* the sentences of a string by position: a sentence starts at a token that is
\* no punctuation and follows punctuation or nothing, and runs up to the next
\* punctuation
SentenceStarts(str) ==
  { i \in 1..Len(str) :
      /\ str[i] \notin SentencePunctuation
      /\ i = 1 \/ str[i - 1] \in SentencePunctuation }
SentenceAt(str, i) ==
  LET ends == { j \in i..Len(str) :
                  \A k \in i..j : str[k] \notin SentencePunctuation }
  IN Trim(SubSeq(str, i, CHOOSE j \in ends : \A k \in ends : k <= j))
ContainsKeyword(sentence) ==
  \E i \in 1..Len(sentence) : sentence[i] \in {"should", "Should", "must", "Must",
                                               "when", "When", "given", "Given"}
BehaviorStarts(str) == { i \in SentenceStarts(str) : ContainsKeyword(SentenceAt(str, i)) }

\* the edge cases of the tests generated
EdgeCasesOf(tests) ==
  { tests[i].specificCase : i \in { k \in 1..Len(tests) : tests[k].testType = "edge_case" } }

\* C16 as stated: for any requirements string that contains the keyword
\* number, the edge cases generated for it include zero value, negative value
\* and maximum value.
C16_NumberGetsNumericEdgeCases ==
  (last.op = "generateTestCases" /\ includes(last.requirements, "number"))
    => {"zero value", "negative value", "maximum value"} \subseteq EdgeCasesOf(last.result)

\* C16 amended: the edge cases generated for a requirements string include
\* zero value, negative value and maximum value whenever the keyword number
\* stands in a sentence that is taken as a behavior: a sentence that also
\* contains should, must, when or given, or any place in the string when no
\* sentence contains one of these.
C16_NumberInBehaviorGetsNumericEdgeCases ==
  (/\ last.op = "generateTestCases"
   /\ \/ \E i \in BehaviorStarts(last.requirements) :
           includes(SentenceAt(last.requirements, i), "number")
      \/ BehaviorStarts(last.requirements) = {} /\ includes(last.requirements, "number"))
    => {"zero value", "negative value", "maximum value"} \subseteq EdgeCasesOf(last.result)

C16_Witness ==
  /\ last.op = "generateTestCases"
  /\ last.requirements = <<"it", ".", "Must", "number">>
  /\ EdgeCasesOf(last.result) = {"zero value", "negative value", "maximum value"}

\* C17: parseRequirements returns the sentences of the string that contain
\* should, must, when or given, trimmed and in their order in the string; when
\* no sentence contains one it returns the whole string as the only behavior;
\* the result is never empty.
C17_BehaviorsAreKeywordSentences ==
  last.op = "parseRequirements" =>
    LET str == last.requirements
        starts == BehaviorStarts(str)
        rank(i) == Cardinality({ j \in starts : j <= i })
    IN /\ Len(last.result) >= 1
       /\ starts = {} => last.result = <<str>>
       /\ starts # {} =>
            /\ Len(last.result) = Cardinality(starts)
            /\ \A i \in starts : last.result[rank(i)] = SentenceAt(str, i)

C17_Witness ==
  /\ last.op = "parseRequirements"
  /\ last.requirements = <<"Must", "?", "it", "should">>
  /\ last.result = << <<"Must">>, <<"it", "should">> >>

\* the languages, framework names and requirements passed to generateTests
GeneratorLanguages == {"typescript", "java", "python"}
GeneratorFrameworks == {"jest", "Jest", "junit5", "JUnit 5", "pytest", "unsupported-framework"}
GeneratorRequirements == { <<"it", " ", "should">>, <<"number">> }

\* generateTests: the pair is checked, then the tests are generated
generateTests(requirements, language, framework) ==
  IF ~isFrameworkSupported(language, framework)
  THEN [threw |-> TRUE, err |-> "Framework is not supported for language",
        language |-> language, framework |-> framework, tests |-> <<>>]
  ELSE [threw |-> FALSE, err |-> "", language |-> language, framework |-> framework,
        tests |-> generateTestCases(requirements)]

\* a call of generateTests
GenerateTests ==
  \E requirements \in GeneratorRequirements, language \in GeneratorLanguages,
     framework \in GeneratorFrameworks :
    /\ last' = [op |-> "generateTests", language |-> language, framework |-> framework,
                result |-> generateTests(requirements, language, framework)]
    /\ UNCHANGED <<features, sessions, currentSessionId, dirs, now, uuid, race, stdioVars,
                   locale, testMethods>>

\* C18: generateTests accepts a pair exactly when the framework, named by its
\* identifier in the table of supported frameworks (jest, pytest, junit5, ...),
\* is registered there for the language; every other pair is rejected with
\* "Framework X is not supported for language Y".
C18_AcceptsRegisteredIdentifiers ==
  last.op = "generateTests" =>
    /\ ~last.result.threw <=>
         \E f \in SUPPORTED_FRAMEWORKS :
           f.key = last.framework /\ f.language = last.language
    /\ last.result.threw => last.result.err = "Framework is not supported for language"

----------------------------------------------------------------------------
(* TDDCycleValidatorService: src/unnamed/part_007 *)

MaxCommits == 3      \* a commit history has at most this many lines

\* the lines of a commit history, each standing for a line of git log with
\* that word in it
CommitLines == {"test", "TDD", "implement", "refactored", "rename", "docs"}

Histories == UNION { [1..n -> CommitLines] : n \in 0..MaxCommits }

testKeywords == {"test", "spec", "TDD", "failing test", "red"}
implementationKeywords == {"implement", "add", "feature", "fix", "green"}
refactorKeywords == {"refactor", "cleanup", "improve", "extract", "rename"}

\* commits[i].toLowerCase()
commitToLowerCase(line) == IF line = "TDD" THEN "tdd" ELSE line

\* commit.includes(keyword) on the lower-cased lines: refactored holds both
\* refactor and red, tdd does not hold TDD
commitIncludes(commit, keyword) ==
  \/ commit = keyword /\ keyword # "TDD"
  \/ commit = "refactored" /\ keyword \in {"refactor", "red"}

isTest(line) == \E k \in testKeywords : commitIncludes(commitToLowerCase(line), k)
isImplementation(line) ==
  \E k \in implementationKeywords : commitIncludes(commitToLowerCase(line), k)
isRefactor(line) == \E k \in refactorKeywords : commitIncludes(commitToLowerCase(line), k)

\* analyzeCommitPatterns
analyzeCommitPatterns(commits) ==
  LET testCommits == Cardinality({ i \in 1..Len(commits) : isTest(commits[i]) })
      implementationCommits ==
        Cardinality({ i \in 1..Len(commits) : isImplementation(commits[i]) })
      refactorCommits == Cardinality({ i \in 1..Len(commits) : isRefactor(commits[i]) })
  IN [testCommits |-> testCommits,
      implementationCommits |-> implementationCommits,
      refactorCommits |-> refactorCommits,
      hasImplementationBeforeTests |->
        \E i \in 2..Len(commits) : isImplementation(commits[i]) /\ ~isTest(commits[i - 1]),
      lacksTestCommits |-> testCommits = 0 /\ Len(commits) > 0,
      lacksRefactorCommits |-> refactorCommits = 0,
      hasMultipleFeatureCommits |-> implementationCommits > 2]

\* Math.max(score, 0)
MathMax(a, b) == IF a >= b THEN a ELSE b

\* an analyzeTDDAdherence that takes 25 points for every violation
analyzeTDDAdherence_flat(commits) ==
  LET commitAnalysis == analyzeCommitPatterns(commits)
      v1 == IF commitAnalysis.hasImplementationBeforeTests
            THEN <<"premature_implementation">> ELSE <<>>
      v2 == IF commitAnalysis.lacksTestCommits THEN <<"no_failing_test">> ELSE <<>>
      v3 == IF commitAnalysis.lacksRefactorCommits /\ commitAnalysis.hasMultipleFeatureCommits
            THEN <<"skipped_refactor">> ELSE <<>>
  IN [violations |-> v1 \o v2 \o v3,
      score |-> MathMax(100 - 25 * Len(v1 \o v2 \o v3), 0)]

\* analyzeTDDAdherence: the violations found and the score left of 100
analyzeTDDAdherence(commits) ==
  LET commitAnalysis == analyzeCommitPatterns(commits)
      v1 == IF commitAnalysis.hasImplementationBeforeTests
            THEN <<"premature_implementation">> ELSE <<>>
      v2 == IF commitAnalysis.lacksTestCommits THEN <<"no_failing_test">> ELSE <<>>
      v3 == IF commitAnalysis.lacksRefactorCommits /\ commitAnalysis.hasMultipleFeatureCommits
            THEN <<"skipped_refactor">> ELSE <<>>
      score == 100 - (IF v1 # <<>> THEN 30 ELSE 0) - (IF v2 # <<>> THEN 25 ELSE 0)
                   - (IF v3 # <<>> THEN 20 ELSE 0)
  IN [violations |-> v1 \o v2 \o v3, score |-> MathMax(score, 0)]

\* validateCycle was given a commit history, or read one from git log
InitValidator ==
  /\ features = EmptyFiles
  /\ sessions = EmptyFiles
  /\ dirs = {}
  /\ now = StartTime
  /\ uuid = 0
  /\ currentSessionId = UnknownId
  /\ last \in { [op |-> "commits", commits |-> h] : h \in Histories }
  /\ race = NoUpdate
  /\ input = <<>>
  /\ buffer = <<>>
  /\ out = <<>>
  /\ pc = "idle"
  /\ inflight = <<>>
  /\ locale = defaultLocale
  /\ testMethods = EmptyFiles

\* validateCycle: the analysis of the history; isValid when nothing was found
ValidateCycle ==
  /\ last.op = "commits"
  /\ LET analysis == analyzeTDDAdherence(last.commits)
     IN last' = [op |-> "validateCycle", commits |-> last.commits,
                 isValid |-> Len(analysis.violations) = 0,
                 violations |-> analysis.violations, score |-> analysis.score]
  /\ UNCHANGED <<features, sessions, currentSessionId, dirs, now, uuid, race, stdioVars,
                 locale, testMethods>>

NextValidator == ValidateCycle

SpecValidator == InitValidator /\ [][NextValidator]_vars

\* the commits of a history that the keyword lists make test, implementation
\* and refactoring commits
TestCommits(h) == { i \in 1..Len(h) : h[i] \in {"test", "refactored"} }
ImplementationCommits(h) == { i \in 1..Len(h) : h[i] = "implement" }
RefactorCommits(h) == { i \in 1..Len(h) : h[i] \in {"refactored", "rename"} }

\* implementation was committed before tests: an implementation commit stands
\* in the list right after a commit that is no test commit
ImplementationBeforeTests(h) ==
  \E i \in ImplementationCommits(h) : i > 1 /\ (i - 1) \notin TestCommits(h)

\* refactoring was skipped: more than two implementation commits and no
\* refactoring commit
RefactoringSkipped(h) == Cardinality(ImplementationCommits(h)) > 2 /\ RefactorCommits(h) = {}

\* C19 as stated: for every commit history the score is 100, minus 30 if
\* implementation was committed before tests, minus 25 if no test commits
\* exist, minus 20 if refactoring was skipped, and it lies within 0..100.
C19_ScoreIsHundredMinusDeductions ==
  last.op = "validateCycle" =>
    /\ last.score = 100 - (IF ImplementationBeforeTests(last.commits) THEN 30 ELSE 0)
                        - (IF TestCommits(last.commits) = {} THEN 25 ELSE 0)
                        - (IF RefactoringSkipped(last.commits) THEN 20 ELSE 0)
    /\ last.score \in 0..100

\* C19 amended: for every commit history the score is 100, minus 30 if
\* implementation was committed before tests, minus 25 if the history is not
\* empty and no test commits exist, minus 20 if refactoring was skipped, and it
\* lies within 0..100; an empty history scores 100.
C19_ScoreOfNonEmptyHistory ==
  last.op = "validateCycle" =>
    /\ last.score = 100 - (IF ImplementationBeforeTests(last.commits) THEN 30 ELSE 0)
                        - (IF last.commits # <<>> /\ TestCommits(last.commits) = {}
                           THEN 25 ELSE 0)
                        - (IF RefactoringSkipped(last.commits) THEN 20 ELSE 0)
    /\ last.score \in 0..100
    /\ last.commits = <<>> => last.score = 100

C19_Witness ==
  /\ last.op = "validateCycle"
  /\ last.commits = <<"implement", "implement", "implement">>
  /\ last.score = 25
  /\ last.violations = <<"premature_implementation", "no_failing_test", "skipped_refactor">>

----------------------------------------------------------------------------
(* CoverageAnalyzerService: coverage-analyzer.ts.  A percentage with two
   decimals is held as its number of hundredths: 166.67 is 16667. *)

MaxCount == 10          \* covered and total counts of a file run up to this
MaxLcovRecords == 2     \* an LCOV report holds at most this many records

\* Math.round(num / den) for num >= 0 and den > 0: the nearest integer, a half
\* goes up
MathRound(num, den) == (2 * num + den) \div (2 * den)

\* Math.floor(num / den)
MathFloor(num, den) == num \div den

\* a calculatePercentage that cuts the third decimal off
calculatePercentage_floor(covered, total) ==
  IF total = 0 THEN 0 ELSE MathFloor(covered * 100 * 100, total)

\* calculatePercentage(covered, total), in hundredths
calculatePercentage(covered, total) ==
  IF total = 0 THEN 0 ELSE MathRound(covered * 100 * 100, total)

\* the count pairs <<found, hit>> a record reports for lines, functions and
\* branches
LineCounts == {<<10, 8>>, <<0, 0>>, <<3, 1>>}
FunctionCounts == {<<1, 1>>, <<0, 0>>, <<3, 2>>}
BranchCounts == {<<4, 3>>, <<0, 0>>, <<8, 1>>}

LcovRecords ==
  { [LF |-> l[1], LH |-> l[2], FNF |-> f[1], FNH |-> f[2], BRF |-> b[1], BRH |-> b[2]] :
      l \in LineCounts, f \in FunctionCounts, b \in BranchCounts }

LcovReports == UNION { [1..n -> LcovRecords] : n \in 0..MaxLcovRecords }

\* the text of a number
NumberText(n) ==
  CASE n = 0 -> "0" [] n = 1 -> "1" [] n = 2 -> "2" [] n = 3 -> "3" [] n = 4 -> "4"
    [] n = 8 -> "8" [] n = 10 -> "10"

\* parseInt of the text of a count
parseInt(text) ==
  CASE text = "0" -> 0 [] text = "1" -> 1 [] text = "2" -> 2 [] text = "3" -> 3
    [] text = "4" -> 4 [] text = "8" -> 8 [] text = "10" -> 10

\* a line of an LCOV report: what it starts with and the rest of it
LcovLine(tag, rest) == [tag |-> tag, rest |-> rest]

\* the lines of the section of one record, as lcov writes them; end_of_record
\* closes the section
SectionLines(r) ==
  <<LcovLine("SF:", "src/calculator.js"), LcovLine("FN:", "1,add"),
    LcovLine("FNF:", NumberText(r.FNF)), LcovLine("FNH:", NumberText(r.FNH)),
    LcovLine("LF:", NumberText(r.LF)), LcovLine("LH:", NumberText(r.LH)),
    LcovLine("BRF:", NumberText(r.BRF)), LcovLine("BRH:", NumberText(r.BRH))>>

\* lcovContent.split('end_of_record'): the sections of the report, each the
\* sequence of its lines
lcovSections(report) == [i \in 1..Len(report) |-> SectionLines(report[i])]

\* the sum of parseInt(line.substring(...)) over the lines of a section that
\* start with the tag
RECURSIVE sumOfLines(_, _)
sumOfLines(lines, tag) ==
  IF lines = <<>> THEN 0
  ELSE (IF Head(lines).tag = tag THEN parseInt(Head(lines).rest) ELSE 0)
       + sumOfLines(Tail(lines), tag)

\* the running total of a tag over the sections
RECURSIVE sumOfSections(_, _)
sumOfSections(sections, tag) ==
  IF sections = <<>> THEN 0
  ELSE sumOfLines(Head(sections), tag) + sumOfSections(Tail(sections), tag)

\* a parseLcovCoverage that starts its totals again at every section
parseLcovCoverage_lastSection(report) ==
  LET sections == lcovSections(report)
      lst == IF sections = <<>> THEN <<>> ELSE <<sections[Len(sections)]>>
      pct(found, hit) ==
        IF sumOfSections(lst, found) > 0
        THEN MathRound(sumOfSections(lst, hit) * 100, sumOfSections(lst, found))
        ELSE 0
  IN [lines |-> pct("LF:", "LH:"), functions |-> pct("FNF:", "FNH:"),
      branches |-> pct("BRF:", "BRH:"), statements |-> pct("LF:", "LH:")]

\* parseLcovCoverage(lcovContent).overall
parseLcovCoverage(report) ==
  LET sections == lcovSections(report)
      totalLines == sumOfSections(sections, "LF:")
      coveredLines == sumOfSections(sections, "LH:")
      totalFunctions == sumOfSections(sections, "FNF:")
      coveredFunctions == sumOfSections(sections, "FNH:")
      totalBranches == sumOfSections(sections, "BRF:")
      coveredBranches == sumOfSections(sections, "BRH:")
      lines == IF totalLines > 0 THEN MathRound(coveredLines * 100, totalLines) ELSE 0
  IN [lines |-> lines,
      functions |-> IF totalFunctions > 0
                    THEN MathRound(coveredFunctions * 100, totalFunctions) ELSE 0,
      branches |-> IF totalBranches > 0
                   THEN MathRound(coveredBranches * 100, totalBranches) ELSE 0,
      statements |-> lines]

\* the analyzer was handed the counts of a file, or the content of an LCOV report
InitCoverage ==
  /\ features = EmptyFiles
  /\ sessions = EmptyFiles
  /\ dirs = {}
  /\ now = StartTime
  /\ uuid = 0
  /\ currentSessionId = UnknownId
  /\ last \in { [op |-> "counts", covered |-> c, total |-> t] :
                  c \in 0..MaxCount, t \in 0..MaxCount }
              \cup { [op |-> "lcov", report |-> r] : r \in LcovReports }
  /\ race = NoUpdate
  /\ input = <<>>
  /\ buffer = <<>>
  /\ out = <<>>
  /\ pc = "idle"
  /\ inflight = <<>>
  /\ locale = defaultLocale
  /\ testMethods = EmptyFiles

\* processCoverageFile: the percentage of the counts of a file
CalculatePercentage ==
  /\ last.op = "counts"
  /\ last' = [op |-> "calculatePercentage", covered |-> last.covered, total |-> last.total,
              percentage |-> calculatePercentage(last.covered, last.total)]
  /\ UNCHANGED <<features, sessions, currentSessionId, dirs, now, uuid, race, stdioVars,
                 locale, testMethods>>

\* parseLcovCoverage on the content of a report
ParseLcovCoverage ==
  /\ last.op = "lcov"
  /\ last' = [op |-> "parseLcovCoverage", report |-> last.report,
              overall |-> parseLcovCoverage(last.report)]
  /\ UNCHANGED <<features, sessions, currentSessionId, dirs, now, uuid, race, stdioVars,
                 locale, testMethods>>

NextCoverage == CalculatePercentage \/ ParseLcovCoverage

SpecCoverage == InitCoverage /\ [][NextCoverage]_vars

\* p hundredths is the value of covered/total*100 rounded to two decimals: no
\* number of hundredths is nearer, and of two equally near the upper one
RoundedToTwoDecimals(p, covered, total) ==
  /\ 2 * (p * total - covered * 10000) <= total
  /\ 2 * (covered * 10000 - p * total) < total

\* C21: calculatePercentage(covered, total) is 0 whenever total is 0, and
\* otherwise covered/total*100 rounded to two decimals; calculatePercentage(8, 10)
\* is 80 and calculatePercentage(0, 0) is 0.
C21_PercentageRoundedToTwoDecimals ==
  last.op = "calculatePercentage" =>
    /\ last.total = 0 => last.percentage = 0
    /\ last.total # 0 => RoundedToTwoDecimals(last.percentage, last.covered, last.total)
    /\ last.covered = 8 /\ last.total = 10 => last.percentage = 80 * 100
    /\ last.covered = 0 /\ last.total = 0 => last.percentage = 0

\* 5 of 3 is 166.67: the third decimal was rounded up
C21_Witness ==
  /\ last.op = "calculatePercentage"
  /\ last.covered = 5
  /\ last.total = 3
  /\ last.percentage = 16667

\* the sum of a count over the records of a report
RECURSIVE CountSum(_, _)
CountSum(report, field) ==
  IF report = <<>> THEN 0 ELSE Head(report)[field] + CountSum(Tail(report), field)

\* p is hit/found*100 rounded to a whole number, a half going up; 0 when
\* nothing was found
RoundedRatio(p, hit, found) ==
  IF found = 0 THEN p = 0
  ELSE /\ 2 * (p * found - hit * 100) <= found
       /\ 2 * (hit * 100 - p * found) < found

TestRecord == [LF |-> 10, LH |-> 8, FNF |-> 1, FNH |-> 1, BRF |-> 4, BRH |-> 3]

\* C22: parseLcovCoverage on a record with LF:10, LH:8, FNF:1, FNH:1, BRF:4,
\* BRH:3 yields lines 80, functions 100, branches 75; each overall percentage is
\* the rounded ratio of the hit to the found counts summed over all records,
\* and 0 when the found count is 0.
C22_LcovOverallIsRatioOfSums ==
  last.op = "parseLcovCoverage" =>
    /\ RoundedRatio(last.overall.lines,
                    CountSum(last.report, "LH"), CountSum(last.report, "LF"))
    /\ RoundedRatio(last.overall.functions,
                    CountSum(last.report, "FNH"), CountSum(last.report, "FNF"))
    /\ RoundedRatio(last.overall.branches,
                    CountSum(last.report, "BRH"), CountSum(last.report, "BRF"))
    /\ last.report = <<TestRecord>> =>
         /\ last.overall.lines = 80
         /\ last.overall.functions = 100
         /\ last.overall.branches = 75

\* two records: 9 of 13 lines, 3 of 4 functions and 4 of 12 branches were hit
C22_Witness ==
  /\ last.op = "parseLcovCoverage"
  /\ last.report = <<TestRecord,
                     [LF |-> 3, LH |-> 1, FNF |-> 3, FNH |-> 2, BRF |-> 8, BRH |-> 1]>>
  /\ last.overall.lines = 69
  /\ last.overall.functions = 75
  /\ last.overall.branches = 33

----------------------------------------------------------------------------
(* FeatureManagementService.findSimilarFeatures.  A text is the sequence of its
   words, a score with n query words is held as its number of 1/(400*n)ths. *)

MaxStored == 3           \* the searched project's file holds at most this many records
MaxResults == 2          \* the callers' maxResults run up to this
defaultMaxResults == 10
defaultMinSimilarity == 3     \* 0.3, in tenths

\* an argument that was not given, and one that was
undefined == <<>>
Given(v) == <<v>>

\* String.prototype.toLowerCase on a word and on a text
wordToLowerCase(w) == IF w = "User" THEN "user" ELSE w
textToLowerCase(text) == [i \in 1..Len(text) |-> wordToLowerCase(text[i])]

\* a.includes(b), a.startsWith(b) and a.endsWith(b) on the words of the texts
wordIncludes(a, b) == a = b \/ (a = "authentication" /\ b = "auth")
wordStartsWith(a, b) == a = b \/ (a = "authentication" /\ b = "auth")
wordEndsWith(a, b) == a = b

\* word.length > 2
longerThanTwo(w) == w # "ui"

\* text.includes(query): the query's words stand in the text one after another,
\* the first as the end of a word and the last as the start of one
textIncludes(text, query) ==
  LET k == Len(query)
  IN \E i \in 1..(Len(text) - k + 1) :
       IF k = 1 THEN wordIncludes(text[i], query[1])
       ELSE /\ wordEndsWith(text[i], query[1])
            /\ wordStartsWith(text[i + k - 1], query[k])
            /\ \A j \in 2..(k - 1) : text[i + j - 1] = query[j]

Min(a, b) == IF a <= b THEN a ELSE b

\* the number of query words, 1 for none: the scores of a query are held over it
ScoreBase(queryWords) == IF Len(queryWords) = 0 THEN 1 ELSE Len(queryWords)

\* the query words with a word equal to them in the words, and those without
\* but with a word that holds them or that they hold
matchedWords(words, queryWords) ==
  { i \in 1..Len(queryWords) : \E j \in 1..Len(words) : words[j] = queryWords[i] }
partialMatches(words, queryWords) ==
  { i \in 1..Len(queryWords) :
      /\ i \notin matchedWords(words, queryWords)
      /\ \E j \in 1..Len(words) :
           wordIncludes(words[j], queryWords[i]) \/ wordIncludes(queryWords[i], words[j]) }

\* calculateTextSimilarity, in 1/(10*n)ths
calculateTextSimilarity(text, query, queryWords) ==
  IF text = <<>> \/ query = <<>> THEN 0
  ELSE IF textIncludes(text, query) THEN 10 * ScoreBase(queryWords)
  ELSE IF Len(queryWords) = 0 THEN 0
  ELSE Min(10 * Cardinality(matchedWords(text, queryWords))
             + 7 * Cardinality(partialMatches(text, queryWords)),
           10 * Len(queryWords))

\* calculateTagSimilarity, in 1/(10*n)ths
calculateTagSimilarity(tags, queryWords) ==
  IF tags = <<>> \/ Len(queryWords) = 0 THEN 0
  ELSE Min(10 * Cardinality(matchedWords(textToLowerCase(tags), queryWords))
             + 8 * Cardinality(partialMatches(textToLowerCase(tags), queryWords)),
           10 * Len(queryWords))

\* acceptanceCriteria.join(' ')
RECURSIVE join(_)
join(texts) == IF texts = <<>> THEN <<>> ELSE Head(texts) \o join(Tail(texts))

\* calculateFeatureSimilarity: the weighted scores over the weights that
\* apply, at most 1; in 1/(400*n)ths
calculateFeatureSimilarity(feature, queryWords, queryLower) ==
  LET n == ScoreBase(queryWords)
      nameScore == calculateTextSimilarity(textToLowerCase(feature.name), queryLower, queryWords)
      descriptionScore ==
        calculateTextSimilarity(textToLowerCase(feature.description), queryLower, queryWords)
      hasTags == feature.tags # <<>>
      tagScore == calculateTagSimilarity(feature.tags, queryWords)
      criteriaScore ==
        calculateTextSimilarity(textToLowerCase(join(feature.acceptanceCriteria)),
                                queryLower, queryWords)
      totalScore == 4 * nameScore + 3 * descriptionScore
                    + (IF hasTags THEN 2 * tagScore ELSE 0) + criteriaScore
      normalizedScore == IF hasTags THEN 4 * totalScore ELSE 5 * totalScore
  IN [score |-> Min(normalizedScore, 400 * n),
      reasons |-> (IF nameScore > 3 * n THEN <<"Name similarity">> ELSE <<>>)
               \o (IF descriptionScore > 3 * n THEN <<"Description similarity">> ELSE <<>>)
               \o (IF hasTags /\ tagScore > 0 THEN <<"Tag matches found">> ELSE <<>>)
               \o (IF criteriaScore > 3 * n
                   THEN <<"Acceptance criteria similarity">> ELSE <<>>)]

\* Array.prototype.sort((a, b) => b.similarity - a.similarity): descending, equal
\* ones keep their order
RECURSIVE insertBySimilarity(_, _)
insertBySimilarity(sorted, item) ==
  IF sorted = <<>> THEN <<item>>
  ELSE IF Head(sorted).similarity >= item.similarity
  THEN <<Head(sorted)>> \o insertBySimilarity(Tail(sorted), item)
  ELSE <<item>> \o sorted

RECURSIVE sortBySimilarity(_)
sortBySimilarity(items) ==
  IF items = <<>> THEN <<>>
  ELSE insertBySimilarity(sortBySimilarity(SubSeq(items, 1, Len(items) - 1)),
                          items[Len(items)])

\* Array.prototype.slice(0, end) for end >= 0
slice(items, end) == SubSeq(items, 1, Min(end, Len(items)))

\* the features of the project with their similarity to the query, those
\* under minSimilarity (in tenths) left out
similarities(fs, query, projectId, minSimilarity) ==
  LET listed == listFeatures(fs, projectId)
      queryLower == textToLowerCase(query)
      queryWords == SelectSeq(queryLower, longerThanTwo)
      scored == [i \in 1..Len(listed) |->
                   LET similarity == calculateFeatureSimilarity(listed[i], queryWords, queryLower)
                   IN [feature |-> listed[i], similarity |-> similarity.score,
                       reasons |-> similarity.reasons]]
  IN SelectSeq(scored,
       LAMBDA s : 10 * s.similarity >= minSimilarity * 400 * ScoreBase(queryWords))

\* a findSimilarFeatures that cuts the list before it sorts it
findSimilarFeatures_sliceFirst(fs, query, projectId, maxResultsArg, minSimilarityArg) ==
  LET maxResults == IF maxResultsArg = undefined THEN defaultMaxResults ELSE maxResultsArg[1]
      minSimilarity ==
        IF minSimilarityArg = undefined THEN defaultMinSimilarity ELSE minSimilarityArg[1]
  IN sortBySimilarity(slice(similarities(fs, query, projectId, minSimilarity), maxResults))

\* findSimilarFeatures(query, projectId, maxResults = 10, minSimilarity = 0.3)
findSimilarFeatures(fs, query, projectId, maxResultsArg, minSimilarityArg) ==
  LET maxResults == IF maxResultsArg = undefined THEN defaultMaxResults ELSE maxResultsArg[1]
      minSimilarity ==
        IF minSimilarityArg = undefined THEN defaultMinSimilarity ELSE minSimilarityArg[1]
  IN slice(sortBySimilarity(similarities(fs, query, projectId, minSimilarity)), maxResults)

\* the features stored for the searched project
SearchedFeatures ==
  { [id |-> 1, projectId |-> "alpha", name |-> <<"User", "login">>,
     description |-> <<"user", "authentication">>, tags |-> <<"auth">>,
     acceptanceCriteria |-> <<<<"login">>, <<"ui">>>>, status |-> "planning",
     createdAt |-> StartTime, updatedAt |-> StartTime],
    [id |-> 2, projectId |-> "alpha", name |-> <<"cart">>,
     description |-> <<"user", "cart">>, tags |-> <<>>,
     acceptanceCriteria |-> <<<<"cart">>>>, status |-> "planning",
     createdAt |-> StartTime, updatedAt |-> StartTime],
    [id |-> 3, projectId |-> "alpha", name |-> <<"authentication">>,
     description |-> <<"login", "ui">>, tags |-> <<"User">>,
     acceptanceCriteria |-> <<<<"auth">>>>, status |-> "planning",
     createdAt |-> StartTime, updatedAt |-> StartTime] }

\* the feature stored for the other project
OtherFeature ==
  [id |-> 4, projectId |-> "beta", name |-> <<"User", "login">>,
   description |-> <<"user", "authentication">>, tags |-> <<"auth">>,
   acceptanceCriteria |-> <<<<"login">>>>, status |-> "planning",
   createdAt |-> StartTime, updatedAt |-> StartTime]

StoredFiles ==
  UNION { { [i \in 1..n |-> JSONStringify(f[i])] : f \in [1..n -> SearchedFeatures] } :
            n \in 0..MaxStored }

QueryWordsGiven == {"user", "auth", "login", "ui"}
Queries == UNION { [1..n -> QueryWordsGiven] : n \in 0..2 }

\* the store holds features of two projects, and a caller's query arrived
InitSimilar ==
  /\ features \in { [EmptyFiles EXCEPT !["alpha"] = f,
                                       !["beta"] = <<JSONStringify(OtherFeature)>>] :
                      f \in StoredFiles }
  /\ sessions = EmptyFiles
  /\ dirs = {"alpha", "beta"}
  /\ now = StartTime
  /\ uuid = 0
  /\ currentSessionId = UnknownId
  /\ last \in { [op |-> "query", query |-> q, projectId |-> p, maxResults |-> mr,
                 minSimilarity |-> ms] :
                  q \in Queries, p \in FeatureProjects,
                  mr \in { Given(n) : n \in 0..MaxResults } \cup {undefined},
                  ms \in { Given(n) : n \in {0, 3, 10} } \cup {undefined} }
  /\ race = NoUpdate
  /\ input = <<>>
  /\ buffer = <<>>
  /\ out = <<>>
  /\ pc = "idle"
  /\ inflight = <<>>
  /\ locale = defaultLocale
  /\ testMethods = EmptyFiles

\* FeatureManagementService.findSimilarFeatures answers the query
FindSimilarFeatures ==
  /\ last.op = "query"
  /\ last' = [op |-> "findSimilarFeatures", query |-> last.query,
              projectId |-> last.projectId, maxResults |-> last.maxResults,
              minSimilarity |-> last.minSimilarity,
              result |-> findSimilarFeatures(features, last.query, last.projectId,
                                             last.maxResults, last.minSimilarity)]
  /\ UNCHANGED <<features, sessions, currentSessionId, dirs, now, uuid, race, stdioVars,
                 locale, testMethods>>

NextSimilar == FindSimilarFeatures

SpecSimilar == InitSimilar /\ [][NextSimilar]_vars

\* the maximum and the threshold (in tenths) a call works with
MaxResultsOf(call) ==
  IF call.maxResults = undefined THEN defaultMaxResults ELSE call.maxResults[1]
MinSimilarityOf(call) ==
  IF call.minSimilarity = undefined THEN defaultMinSimilarity ELSE call.minSimilarity[1]

\* the score a stored line has for the query of the call
ScoreOfLine(line, call) ==
  calculateFeatureSimilarity(restoreDates(line),
    SelectSeq(textToLowerCase(call.query), longerThanTwo), textToLowerCase(call.query)).score

\* the score is at least the threshold of the call
AtLeastMinSimilarity(score, call) ==
  10 * score >= MinSimilarityOf(call)
                * 400 * ScoreBase(SelectSeq(textToLowerCase(call.query), longerThanTwo))

\* the lines of the project's file that qualify for the call
QualifyingLines(call) ==
  { i \in 1..Len(features[call.projectId]) :
      AtLeastMinSimilarity(ScoreOfLine(features[call.projectId][i], call), call) }

\* C24: findSimilarFeatures returns only features of the given project whose
\* similarity is at least minSimilarity, sorted by similarity in descending
\* order, and never more than maxResults of them: the highest-scoring ones.
C24_SimilarFeaturesFilteredSortedLimited ==
  last.op = "findSimilarFeatures" =>
    LET result == last.result
        lines == features[last.projectId]
    IN /\ \A i \in 1..Len(result) :
            /\ result[i].feature.projectId = last.projectId
            /\ \E j \in 1..Len(lines) : restoreDates(lines[j]) = result[i].feature
            /\ result[i].similarity = ScoreOfLine(JSONStringify(result[i].feature), last)
            /\ AtLeastMinSimilarity(result[i].similarity, last)
       /\ \A i \in 1..(Len(result) - 1) : result[i].similarity >= result[i + 1].similarity
       /\ Len(result) <= MaxResultsOf(last)
       /\ Len(result) = Min(MaxResultsOf(last), Cardinality(QualifyingLines(last)))
       /\ \A k \in { ScoreOfLine(lines[j], last) : j \in QualifyingLines(last) } :
            Cardinality({ i \in 1..Len(result) : result[i].similarity > k })
              = Min(MaxResultsOf(last),
                    Cardinality({ j \in QualifyingLines(last) :
                                    ScoreOfLine(lines[j], last) > k }))

\* three features qualified, the stored order was not the order of the scores,
\* and the two best were returned
C24_Witness ==
  /\ last.op = "findSimilarFeatures"
  /\ last.maxResults = Given(2)
  /\ Cardinality(QualifyingLines(last)) = 3
  /\ Len(last.result) = 2
  /\ last.result[1].similarity > last.result[2].similarity
  /\ last.result[1].feature # restoreDates(features[last.projectId][1])
  /\ last.result[1].feature # restoreDates(features[last.projectId][2])

----------------------------------------------------------------------------
(* tdd calls of one NewToolsHandler whose handling overlaps: a call gives way
   at every await, here at the saveTDDSession of ensureActiveSession and at the
   updateTDDSessionStage of updateSessionStage.  pc holds each call's position,
   inflight what the call keeps in its locals. *)

MaxOverlap == 2      \* at most this many tdd calls are being handled at a time

OverlapCalls == 1..MaxOverlap

\* the tdd commands that update the stage; the calls carry what they require
StagingCommands == {"generate", "implement", "refactor"}

\* the stage a command asks updateSessionStage for
stageOfCommand(command) ==
  CASE command = "generate" -> "red"
    [] command = "implement" -> "green"
    [] command = "refactor" -> "refactor"

NoLocals == [command |-> "", sessionId |-> UnknownId]

InitOverlap ==
  /\ features = EmptyFiles
  /\ sessions = EmptyFiles
  /\ dirs = {}
  /\ now = StartTime
  /\ uuid = 0
  /\ currentSessionId = UnknownId
  /\ last = NoCall("init")
  /\ race = NoUpdate
  /\ input = <<>>
  /\ buffer = <<>>
  /\ out = <<>>
  /\ pc = [c \in OverlapCalls |-> "idle"]
  /\ inflight = [c \in OverlapCalls |-> NoLocals]
  /\ locale = defaultLocale
  /\ testMethods = EmptyFiles

\* handleTDDTool up to the await in ensureActiveSession: with no current
\* session the session object is built and saveTDDSession is called
TddStart(c) ==
  /\ pc[c] = "idle"
  /\ \E command \in StagingCommands :
       IF currentSessionId = UnknownId
       THEN /\ pc' = [pc EXCEPT ![c] = "saving"]
            /\ inflight' = [inflight EXCEPT ![c] = [command |-> command, sessionId |-> now]]
       ELSE /\ pc' = [pc EXCEPT ![c] = "ensured"]
            /\ inflight' = [inflight EXCEPT ![c] = [command |-> command,
                                                    sessionId |-> UnknownId]]
  /\ last' = [NoCall("tdd.start") EXCEPT !.id = c]
  /\ UNCHANGED <<features, sessions, currentSessionId, dirs, now, uuid, race, input, buffer,
                 out, locale, testMethods>>

\* saveTDDSession has appended the line and ensureActiveSession goes on:
\* this.currentSessionId = sessionId
TddSaved(c) ==
  /\ pc[c] = "saving"
  /\ LET r == saveTDDSession(sessions, dirs,
                             NewSession("auto-project", inflight[c].sessionId), TRUE)
     IN /\ sessions' = r.files
        /\ dirs' = r.dirs
  /\ currentSessionId' = inflight[c].sessionId
  /\ pc' = [pc EXCEPT ![c] = "ensured"]
  /\ last' = [NoCall("tdd.saved") EXCEPT !.id = inflight[c].sessionId]
  /\ UNCHANGED <<features, now, uuid, race, input, buffer, out, inflight, locale, testMethods>>

\* the command's updateSessionStage on the session that is current by now; the
\* call returns its result
TddStage(c) ==
  /\ pc[c] = "ensured"
  /\ sessions' = updateSessionStage(sessions, dirs, currentSessionId,
                                    stageOfCommand(inflight[c].command), now)
  /\ pc' = [pc EXCEPT ![c] = "idle"]
  /\ inflight' = [inflight EXCEPT ![c] = NoLocals]
  /\ last' = [NoCall("new.tdd") EXCEPT !.id = currentSessionId,
                                       !.val = inflight[c].command]
  /\ UNCHANGED <<features, currentSessionId, dirs, now, uuid, race, input, buffer, out,
                 locale, testMethods>>

\* the clock advances while calls are being handled
OverlapTick ==
  /\ now' \in {t \in Times : t > now}
  /\ last' = NoCall("tick")
  /\ UNCHANGED <<features, sessions, currentSessionId, dirs, uuid, race, stdioVars, locale, testMethods>>

NextOverlap ==
  \/ OverlapTick
  \/ \E c \in OverlapCalls : TddStart(c)
  \/ \E c \in OverlapCalls : TddSaved(c)
  \/ \E c \in OverlapCalls : TddStage(c)

SpecOverlap == InitOverlap /\ [][NextOverlap]_vars

\* C27: one handler instance holds at most one implicit session: over any
\* sequence of tool calls, including calls whose handling overlaps, at most one
\* session record is auto-created and every stage update is applied to that
\* same session.
C27_OneImplicitSession ==
  /\ Len(sessions["auto-project"]) <= 1
  /\ last.op = "new.tdd" =>
       /\ sessions["auto-project"] # <<>>
       /\ last.id = sessions["auto-project"][1].id

----------------------------------------------------------------------------
(* Test methods in the store, driven through the handlers of registerTestMethod,
   updateTestExecutionResult and updateTestMethodStatus *)

MaxMethods == 2      \* at most this many lines over all test-methods.jsonl files

\* TestMethodSchema.status
TestMethodStatus == {"passed", "failed", "skipped", "pending"}

\* the status values callers pass to updateTestMethodStatus
StatusArgs == {"skipped", "pending", "running"}

\* handleRegisterTestMethod: the test method built from the arguments
NewTestMethod(args, t) ==
  [id |-> t, featureId |-> args.featureId,
   projectId |-> IF args.projectId # "" THEN args.projectId ELSE "default-project",
   name |-> args.name, status |-> "pending", createdAt |-> t]

\* TestMethodSchema.safeParse succeeds: the name is not empty and the
\* featureId is a string (UnknownId when it was not given)
validateTestMethod(method) == method.name # "" /\ method.featureId # UnknownId

\* StorageService.registerTestMethod
registerTestMethod(tm, ds, method) ==
  IF ~validateTestMethod(method)
  THEN [ok |-> FALSE, err |-> "Invalid test method data", files |-> tm, dirs |-> ds]
  ELSE [ok |-> TRUE, err |-> "",
        files |-> [tm EXCEPT ![method.projectId] = appendToJsonlFile(@, method)],
        dirs |-> ds \cup {method.projectId}]

\* StorageService.updateTestExecutionResult
updateTestExecutionResult(tm, ds, methodId, result, t) ==
  rewriteFirst(tm, ds, methodId,
    [executionResults |-> result, lastExecutedAt |-> t,
     status |-> IF result.passed THEN "passed" ELSE "failed"])

\* StorageService.updateTestMethodStatus: method.status = status as any
updateTestMethodStatus(tm, ds, methodId, status) ==
  rewriteFirst(tm, ds, methodId, [status |-> status])

\* the handlers throw when the store did not find the method
handleUpdateTestExecutionResult(tm, ds, methodId, result, t) ==
  LET r == updateTestExecutionResult(tm, ds, methodId, result, t)
  IN IF r.ok THEN r ELSE [r EXCEPT !.err = "Failed to update test execution result"]

handleUpdateTestMethodStatus(tm, ds, methodId, status) ==
  LET r == updateTestMethodStatus(tm, ds, methodId, status)
  IN IF r.ok THEN r ELSE [r EXCEPT !.err = "Failed to update test method status"]

\* the ids a caller can name: test-<time> of the times there are
MethodIds == Times

\* tools/call registerTestMethod
RegisterTestMethod ==
  \E projectId \in {"", "alpha"}, name \in {"", "t"}, featureId \in {UnknownId, 100} :
    LET args == [projectId |-> projectId, name |-> name, featureId |-> featureId]
        r == registerTestMethod(testMethods, dirs, NewTestMethod(args, now))
    IN /\ r.ok => TotalLines(testMethods) < MaxMethods
       /\ testMethods' = r.files
       /\ dirs' = r.dirs
       /\ last' = Call("registerTestMethod", IF r.ok THEN now ELSE UnknownId, name, r)
       /\ UNCHANGED <<features, sessions, currentSessionId, now, uuid, race, stdioVars, locale>>

\* tools/call updateTestExecutionResult
UpdateTestExecutionResult ==
  \E methodId \in MethodIds, passed \in BOOLEAN :
    LET r == handleUpdateTestExecutionResult(testMethods, dirs, methodId,
                                             [duration |-> 1, passed |-> passed], now)
    IN /\ testMethods' = r.files
       /\ dirs' = r.dirs
       /\ last' = Call("updateTestExecutionResult", methodId,
                       IF passed THEN "passed" ELSE "failed", r)
       /\ UNCHANGED <<features, sessions, currentSessionId, now, uuid, race, stdioVars, locale>>

\* tools/call updateTestMethodStatus
UpdateTestMethodStatus ==
  \E methodId \in MethodIds, status \in StatusArgs :
    LET r == handleUpdateTestMethodStatus(testMethods, dirs, methodId, status)
    IN /\ testMethods' = r.files
       /\ dirs' = r.dirs
       /\ last' = Call("updateTestMethodStatus", methodId, status, r)
       /\ UNCHANGED <<features, sessions, currentSessionId, now, uuid, race, stdioVars, locale>>

NextMethods ==
  \/ Tick
  \/ RegisterTestMethod
  \/ UpdateTestExecutionResult
  \/ UpdateTestMethodStatus

SpecMethods == Init /\ [][NextMethods]_vars

\* C29: after any sequence of register, result-update and status-update calls,
\* every stored test method's status is one of passed, failed, skipped or
\* pending.
C29_StoredStatusInEnum ==
  \A p \in Projects : \A i \in 1..Len(testMethods[p]) :
    testMethods[p][i].status \in {"passed", "failed", "skipped", "pending"}

----------------------------------------------------------------------------
(* The services driven by their callers *)

NextServices ==
  \/ Tick
  \/ RunTests
  \/ GenerateTests

SpecServices == Init /\ [][NextServices]_vars

====
